---- MODULE Spec2Model ----
(***************************************************************************)
(* Model of the RTanks statistics scraper (scraper.py) and of the /user   *)
(* command that consumes it (bot.py).                                      *)
(*                                                                         *)
(* Text is modelled as a sequence of one-character strings.  The           *)
(* characters that matter to the code are: ASCII digits, the plain space,  *)
(* the no-break space "nbsp" (U+00A0, what &nbsp; becomes after parsing),  *)
(* the comma, a letter "x", the slash, and "sup2" (U+00B2, a character for *)
(* which str.isdigit() is true but int() raises ValueError).               *)
(***************************************************************************)
EXTENDS Integers, Sequences, FiniteSets, TLC

VARIABLES
    lb_page,      \* SpecLB: the <tr> rows of the ratings page, document order
    lb_out,       \* SpecLB: what the leaderboard parse returned
    lb_pc         \* SpecLB: "ready" before the parse, "done" after

lbvars == <<lb_page, lb_out, lb_pc>>

\* Python's None, where the other values are records
None == [kind |-> "none"]

----------------------------------------------------------------------------
(* Bounds *)

MaxPrefix == 1      \* arbitrary rows in front of the generated rows
MaxFill == 11       \* generated well-formed rows on a ratings page

----------------------------------------------------------------------------
(* Python string primitives used by the scraper *)

AsciiDigits == {"0", "1", "2", "3", "4", "5", "6", "7", "8", "9"}

\* characters matched by \s in a str pattern, and stripped by str.strip()
Whitespace == {" ", "nbsp"}

DigitVal(c) ==
    CASE c = "0" -> 0 [] c = "1" -> 1 [] c = "2" -> 2 [] c = "3" -> 3
      [] c = "4" -> 4 [] c = "5" -> 5 [] c = "6" -> 6 [] c = "7" -> 7
      [] c = "8" -> 8 [] c = "9" -> 9

DigitChar(d) ==
    CASE d = 0 -> "0" [] d = 1 -> "1" [] d = 2 -> "2" [] d = 3 -> "3"
      [] d = 4 -> "4" [] d = 5 -> "5" [] d = 6 -> "6" [] d = 7 -> "7"
      [] d = 8 -> "8" [] d = 9 -> "9"

RECURSIVE DigitsToInt(_)
DigitsToInt(t) ==
    IF t = <<>> THEN 0
    ELSE 10 * DigitsToInt(SubSeq(t, 1, Len(t) - 1)) + DigitVal(t[Len(t)])

RECURSIVE IntToText(_)
IntToText(n) ==
    IF n < 10 THEN <<DigitChar(n)>>
    ELSE Append(IntToText(n \div 10), DigitChar(n % 10))

RECURSIVE LStrip(_)
LStrip(t) ==
    IF t # <<>> /\ t[1] \in Whitespace THEN LStrip(Tail(t)) ELSE t

RECURSIVE RStrip(_)
RStrip(t) ==
    IF t # <<>> /\ t[Len(t)] \in Whitespace
    THEN RStrip(SubSeq(t, 1, Len(t) - 1)) ELSE t

\* str.strip(), as applied by get_text(strip=True) to a cell's text
Strip(t) == RStrip(LStrip(t))

RECURSIVE Filter(_, _)
Filter(t, keep) ==
    IF t = <<>> THEN <<>>
    ELSE IF t[1] \in keep THEN <<t[1]>> \o Filter(Tail(t), keep)
    ELSE Filter(Tail(t), keep)

\* str.isdigit(): non-empty and every character is a digit character
str_isdigit(t) ==
    /\ t # <<>>
    /\ \A i \in 1..Len(t) : t[i] \in AsciiDigits \cup {"sup2"}

\* int(t): surrounding whitespace is ignored, then decimal digits only;
\* anything else raises ValueError
int_raises(t) ==
    \/ Strip(t) = <<>>
    \/ \E i \in 1..Len(Strip(t)) : Strip(t)[i] \notin AsciiDigits

py_int(t) == DigitsToInt(Strip(t))

----------------------------------------------------------------------------
(* get_leaderboard: the parse of the fetched ratings page                  *)
(* A row is [cells, pos, link, name, val]: the number of <td> cells, the   *)
(* raw text of cell 0, whether cell 1 holds an <a>, the anchor text, and   *)
(* the raw text of cell 2.                                                 *)

TopN == 10

\* scraper.py:345-354
lb_value(value_text) ==
    LET kept == Filter(value_text, AsciiDigits \cup Whitespace)
        value_clean == Filter(kept, (AsciiDigits \cup Whitespace) \ {" "})
    IN  IF value_clean = <<>> THEN 0
        ELSE IF int_raises(value_clean) THEN 0
        ELSE py_int(value_clean)

lb_position_ok_norange(position) ==
    /\ str_isdigit(position)
    /\ ~int_raises(position)

\* scraper.py:357
lb_position_ok(position) ==
    /\ str_isdigit(position)
    /\ ~int_raises(position)
    /\ 1 <= py_int(position)
    /\ py_int(position) <= 100

\* scraper.py:326-368: the entries one row contributes (none or one)
lb_row_entries(row) ==
    IF row.cells >= 3 /\ row.link /\ lb_position_ok(Strip(row.pos))
    THEN << [position |-> py_int(Strip(row.pos)),
             nickname |-> row.name,
             value |-> lb_value(Strip(row.val)),
             formatted_value |-> Strip(row.val)] >>
    ELSE <<>>

RECURSIVE lb_collect(_)
lb_collect(rows) ==
    IF rows = <<>> THEN <<>>
    ELSE lb_row_entries(Head(rows)) \o lb_collect(Tail(rows))

\* list.sort(key=position): stable, ascending
RECURSIVE lb_insert(_, _)
lb_insert(sorted, e) ==
    IF sorted = <<>> THEN <<e>>
    ELSE IF sorted[Len(sorted)].position <= e.position THEN Append(sorted, e)
    ELSE Append(lb_insert(SubSeq(sorted, 1, Len(sorted) - 1), e),
                sorted[Len(sorted)])

RECURSIVE lb_sort(_)
lb_sort(entries) ==
    IF entries = <<>> THEN <<>>
    ELSE lb_insert(lb_sort(SubSeq(entries, 1, Len(entries) - 1)),
                   entries[Len(entries)])

Min(a, b) == IF a <= b THEN a ELSE b

lb_top_nocap(sorted) == sorted

lb_top(sorted) == SubSeq(sorted, 1, Min(TopN, Len(sorted)))

\* scraper.py:314-372
parse_leaderboard(rows) == lb_top(lb_sort(lb_collect(rows)))

----------------------------------------------------------------------------
(* Ratings pages the leaderboard parse is run on *)

PosTexts ==
    { <<>>, <<"0">>, <<"1">>, <<"2">>, <<"0", "7">>, <<" ", "3">>,
      <<"1", "0", "0">>, <<"1", "0", "1">>, <<"1", "5", "0">>,
      <<"x">>, <<"1", "x">>, <<"sup2">>, <<"1", ",", "0">> }

Shapes == { [cells |-> 3, link |-> TRUE], [cells |-> 3, link |-> FALSE],
            [cells |-> 2, link |-> TRUE] }

Row(c, p, l, n, v) == [cells |-> c, pos |-> p, link |-> l, name |-> n, val |-> v]

\* the value text varies with the shape of the row
ShapeVal(s) ==
    IF s.link THEN <<"1", "0", ",", "0", "0", "0">> ELSE <<"4", "nbsp", "2", "0", "0">>

LBRows ==
    { Row(s.cells, p, s.link, "Zed", ShapeVal(s)) : s \in Shapes, p \in PosTexts }

\* n well-formed rows; "asc" counts up from 1, "desc" counts down to 1,
\* "high" counts up from 95 (so that it runs past 100), "same" repeats 5
FillPos(kind, n, i) ==
    CASE kind = "asc" -> i
      [] kind = "desc" -> n + 1 - i
      [] kind = "high" -> 94 + i
      [] kind = "same" -> 5

Filler(kind, n) ==
    [i \in 1..n |-> Row(3, IntToText(FillPos(kind, n, i)), TRUE, "Fill",
                        IntToText(1000 - i))]

FillLens == {0, 2, TopN, MaxFill}

RECURSIVE SeqsUpTo(_, _)
SeqsUpTo(S, n) ==
    IF n = 0 THEN {<<>>}
    ELSE LET shorter == SeqsUpTo(S, n - 1)
         IN  shorter \cup { Append(s, x) : s \in shorter, x \in S }

ExamplePage ==
    << Row(3, <<"1">>, TRUE, "Alice", <<"1", "0", ",", "0", "0", "0">>),
       Row(3, <<"2">>, TRUE, "Bob", <<"9", ",", "5", "0", "0">>),
       Row(3, <<"1", "5", "0">>, TRUE, "Eve", <<"1">>) >>

\* a row whose value is grouped with a no-break space
NbspValuePage ==
    << Row(3, <<"1">>, TRUE, "Ann", <<"4", "nbsp", "2", "0", "0">>) >>

LBPages ==
    {ExamplePage, NbspValuePage} \cup
    { pre \o Filler(kind, n) :
        pre \in SeqsUpTo(LBRows, MaxPrefix),
        kind \in {"asc", "desc", "high", "same"},
        n \in FillLens }

----------------------------------------------------------------------------
(* The leaderboard parse as a step *)

LBParse ==
    /\ lb_pc = "ready"
    /\ lb_out' = parse_leaderboard(lb_page)
    /\ lb_pc' = "done"
    /\ UNCHANGED lb_page

----------------------------------------------------------------------------
(* Properties of the leaderboard parse *)

Count(S) == Cardinality(S)

\* positions of the accepted rows, in document order
LBAcceptedPos == [k \in 1..Len(lb_collect(lb_page)) |-> lb_collect(lb_page)[k].position]

\* C1: the sequence get_leaderboard returns is sorted ascending by position,
\* has length min(10, number of accepted rows), and holds the accepted rows
\* with the lowest positions.
C1_SortedTop10 ==
    lb_pc = "done" =>
        LET acc == LBAcceptedPos
            below(p) == Count({ i \in 1..Len(acc) : acc[i] < p })
            upto(p) == Count({ i \in 1..Len(acc) : acc[i] <= p })
        IN  /\ Len(lb_out) <= 10
            /\ Len(lb_out) = Min(10, Len(acc))
            /\ \A k \in 1..(Len(lb_out) - 1) :
                   lb_out[k].position <= lb_out[k + 1].position
            /\ \A k \in 1..Len(lb_out) :
                   /\ \E i \in 1..Len(acc) : acc[i] = lb_out[k].position
                   /\ below(lb_out[k].position) <= k - 1
                   /\ upto(lb_out[k].position) >= k

C1_Witness ==
    /\ lb_pc = "done"
    /\ Len(LBAcceptedPos) > 10
    /\ Len(lb_out) = 10
    /\ \E i \in 1..(Len(LBAcceptedPos) - 1) : LBAcceptedPos[i] > LBAcceptedPos[i + 1]

\* the position cell, as displayed, is a base-10 integer in [1,100]
PositionInRange(raw) ==
    LET t == Strip(raw)
    IN  /\ t # <<>>
        /\ \A i \in 1..Len(t) : t[i] \in AsciiDigits
        /\ DigitsToInt(t) \in 1..100

\* C2: every entry of the result has a position in 1..100 and comes from a
\* row whose position cell is a base-10 integer in [1,100]; rows with any
\* other position cell contribute nothing.  The page (1, Alice, 10,000),
\* (2, Bob, 9,500), (150, Eve, 1) yields exactly Alice and Bob with values
\* 10000 and 9500.
C2_PositionFilter ==
    lb_pc = "done" =>
        /\ \A k \in 1..Len(lb_out) : lb_out[k].position \in 1..100
        /\ \A j \in 1..Len(lb_out) :
               Count({ k \in 1..Len(lb_out) :
                         /\ lb_out[k].nickname = lb_out[j].nickname
                         /\ lb_out[k].position = lb_out[j].position })
               <= Count({ i \in 1..Len(lb_page) :
                            /\ lb_page[i].name = lb_out[j].nickname
                            /\ PositionInRange(lb_page[i].pos)
                            /\ DigitsToInt(Strip(lb_page[i].pos)) = lb_out[j].position })
        /\ lb_page = ExamplePage =>
               /\ Len(lb_out) = 2
               /\ lb_out[1].position = 1 /\ lb_out[1].nickname = "Alice"
               /\ lb_out[1].value = 10000
               /\ lb_out[2].position = 2 /\ lb_out[2].nickname = "Bob"
               /\ lb_out[2].value = 9500

C2_Witness ==
    /\ lb_pc = "done"
    /\ lb_page = ExamplePage
    /\ Len(lb_out) = 2

\* C21: the value of every entry is the integer formed by the digits of
\* cell 2, every other character and every whitespace separator removed (0
\* when no digit remains), and formatted_value is the cell's display text.
C21_ValueFromDigits ==
    lb_pc = "done" =>
        \A k \in 1..Len(lb_out) :
            \E i \in 1..Len(lb_page) :
                /\ lb_page[i].name = lb_out[k].nickname
                /\ PositionInRange(lb_page[i].pos)
                /\ DigitsToInt(Strip(lb_page[i].pos)) = lb_out[k].position
                /\ lb_out[k].value = DigitsToInt(Filter(lb_page[i].val, AsciiDigits))
                /\ lb_out[k].formatted_value = Strip(lb_page[i].val)

\* C18: every row with at least three cells and a valid position yields an
\* entry, whether or not its player cell holds an anchor (the nickname is
\* then the image's alt text or the cell's raw text), so the result has as
\* many entries as there are such rows, up to the cap.
C18_RowWithoutAnchor ==
    lb_pc = "done" =>
        LET eligible == { i \in 1..Len(lb_page) :
                            lb_page[i].cells >= 3 /\ PositionInRange(lb_page[i].pos) }
        IN  /\ Len(lb_out) = Min(TopN, Count(eligible))
            /\ \A i \in eligible :
                   Count(eligible) <= TopN =>
                       \E k \in 1..Len(lb_out) :
                           /\ lb_out[k].position = DigitsToInt(Strip(lb_page[i].pos))
                           /\ lb_out[k].nickname = lb_page[i].name

----------------------------------------------------------------------------
(* Experience from the XP progress bar (div.text_xp)                      *)

\* re.search(r'(\d{1,3}(?:\s\d{3})*)', text): index of the first digit, or 0
RECURSIVE xp_first_digit(_, _)
xp_first_digit(t, i) ==
    IF i > Len(t) THEN 0
    ELSE IF t[i] \in AsciiDigits THEN i
    ELSE xp_first_digit(t, i + 1)

\* \d{1,3}, greedy: index of the last digit of the leading run, at most 3 long
xp_lead_end(t, i) ==
    IF i + 1 <= Len(t) /\ t[i + 1] \in AsciiDigits
    THEN IF i + 2 <= Len(t) /\ t[i + 2] \in AsciiDigits THEN i + 2 ELSE i + 1
    ELSE i

\* (?:\s\d{3})*, greedy: j is the index of the last character matched so far
RECURSIVE xp_groups_end(_, _)
xp_groups_end(t, j) ==
    IF /\ j + 4 <= Len(t)
       /\ t[j + 1] \in Whitespace
       /\ t[j + 2] \in AsciiDigits
       /\ t[j + 3] \in AsciiDigits
       /\ t[j + 4] \in AsciiDigits
    THEN xp_groups_end(t, j + 4)
    ELSE j

\* exp_match.group(1), or <<>> when the text holds no digit (no match)
xp_match(t) ==
    LET i == xp_first_digit(t, 1)
    IN  IF i = 0 THEN <<>>
        ELSE SubSeq(t, i, xp_groups_end(t, xp_lead_end(t, i)))

\* exp_match.group(1).replace(' ', '')
xp_clean(t) == LET g == xp_match(t) IN Filter(g, {g[k] : k \in 1..Len(g)} \ {" "})

\* scraper.py:199-202: "none" when the regex finds nothing, "raise" when
\* int() raises ValueError, else the parsed experience
xp_parse(text) ==
    IF xp_match(text) = <<>> THEN [kind |-> "none", value |-> 0]
    ELSE IF int_raises(xp_clean(text)) THEN [kind |-> "raise", value |-> 0]
    ELSE [kind |-> "int", value |-> py_int(xp_clean(text))]

----------------------------------------------------------------------------
(* The progress-bar parse as a step *)

VARIABLES
    xp_n,         \* the integer the progress bar displays
    xp_text,      \* the text of the progress bar, after get_text(strip=True)
    xp_out,       \* the outcome of the parse
    xp_pc

xpvars == <<xp_n, xp_text, xp_out, xp_pc>>

MaxXP == 1200    \* largest experience displayed, besides the samples below

XPSamples == {2106, 3700, 12345, 100000, 1234567}

\* the decimal digits of n, with sep between groups of three (sep = <<>>: none)
RECURSIVE Grouped(_, _)
Grouped(n, sep) ==
    IF n < 1000 THEN IntToText(n)
    ELSE LET r == n % 1000
             low == <<DigitChar(r \div 100), DigitChar((r \div 10) % 10), DigitChar(r % 10)>>
         IN  Grouped(n \div 1000, sep) \o sep \o low

XPSeparators == { <<>>, <<" ">>, <<"nbsp">> }

XPSuffixes == { <<>>, <<" ", "/", " ", "3", " ", "7", "0", "0">> }

XPParse ==
    /\ xp_pc = "ready"
    /\ xp_out' = xp_parse(Strip(xp_text))
    /\ xp_pc' = "done"
    /\ UNCHANGED <<xp_n, xp_text>>

\* C10: a progress-bar text that starts with a non-negative integer, written
\* with or without thousands separators (plain or no-break space), parses to
\* that integer.
C10_ExperienceExact ==
    xp_pc = "done" => (xp_out.kind = "int" /\ xp_out.value = xp_n)

----------------------------------------------------------------------------
(* The site, as the scraper sees it                                        *)
(* A markup is [id, mentions, marker, xp, head, near, page, rows]:         *)
(*   mentions  the nicknames whose text occurs in the page                 *)
(*   marker    the page carries a profile marker                           *)
(*   xp        the text of div.text_xp, <<"absent">> when there is no div     *)
(*   head      status tokens in the parent of the first text node          *)
(*   near      status tokens in the parent of the first text node that     *)
(*             contains the nickname                                       *)
(*   page      status tokens anywhere in the page                          *)
(*   rows      the <tr> rows of the page's tables, as for get_leaderboard  *)

NoElement == <<"absent">>

NickB == <<"b">>
NickPadded == <<" ", "b", " ">>
NickEmpty == <<>>

Nicknames == {NickB, NickPadded, NickEmpty}

Categories == {<<"experience">>, <<"kills">>}

Empty == [kind |-> "markup", id |-> "empty"]      \* a 200 response with an empty body

ProfileOnline ==
    [kind |-> "markup", id |-> "profile_online", mentions |-> {NickB}, marker |-> TRUE,
     xp |-> <<"2", " ", "1", "0", "6", " ", "/", " ", "3", " ", "7", "0", "0">>,
     head |-> {}, near |-> {"online"}, page |-> {"online"}, rows |-> <<>>]

ProfileOffline ==
    [kind |-> "markup", id |-> "profile_offline", mentions |-> {NickB}, marker |-> TRUE,
     xp |-> <<"9", "9", "9">>,
     head |-> {}, near |-> {"offline"}, page |-> {"offline"}, rows |-> <<>>]

ProfileNbsp ==
    [kind |-> "markup", id |-> "profile_nbsp", mentions |-> {NickB}, marker |-> TRUE,
     xp |-> <<"2", "nbsp", "1", "0", "6">>,
     head |-> {}, near |-> {}, page |-> {}, rows |-> <<>>]

NotFoundPage ==
    [kind |-> "markup", id |-> "not_found", mentions |-> {}, marker |-> FALSE, xp |-> NoElement,
     head |-> {}, near |-> {}, page |-> {}, rows |-> <<>>]

RatingsPage ==
    [kind |-> "markup", id |-> "ratings", mentions |-> {}, marker |-> FALSE, xp |-> NoElement,
     head |-> {}, near |-> {}, page |-> {"color: gray"}, rows |-> ExamplePage]

RatingsLater ==
    [kind |-> "markup", id |-> "ratings_later", mentions |-> {}, marker |-> FALSE, xp |-> NoElement,
     head |-> {}, near |-> {}, page |-> {"color: gray"},
     rows |-> <<[ExamplePage[2] EXCEPT !.pos = <<"1">>],
                [ExamplePage[1] EXCEPT !.pos = <<"2">>]>>]

\* a ratings page none of whose rows is accepted
RatingsEmpty ==
    [kind |-> "markup", id |-> "ratings_empty", mentions |-> {}, marker |-> FALSE, xp |-> NoElement,
     head |-> {}, near |-> {}, page |-> {}, rows |-> <<ExamplePage[3]>>]

BaseUrl == [path |-> "", nick |-> <<>>]
NoUrl == [path |-> "none", nick |-> <<>>]

\* the pages the site can answer a GET of url with
Serves(url) ==
    IF url = BaseUrl THEN {RatingsPage, RatingsLater, RatingsEmpty}
    ELSE {NotFoundPage} \cup
         { m \in {ProfileOnline, ProfileOffline, ProfileNbsp} : Strip(url.nick) \in m.mentions }

\* the ways a GET can end without a 200 response
FetchFailures == {"timeout", "connection_error", "http_404"}

----------------------------------------------------------------------------
(* Activity status *)

Online == "Online"
Offline == "Offline"
Unknown == "Unknown"

\* bot.py:87-97 (Cyrillic tokens are written in Latin letters)
bot_online_indicators ==
    {"color: green", "color:green", "background: green", "background:green",
     "onlajn", "online", "v seti", "active"}

bot_offline_indicators ==
    {"color: gray", "color:gray", "color: grey", "color:grey",
     "background: gray", "background:gray", "background: grey", "background:grey",
     "offlajn", "offline", "ne v seti", "inactive", "poslednij raz"}

\* scraper.py:93-105
online_indicators ==
    bot_online_indicators \cup
    {"rgb(0, 255, 0)", "rgb(0,255,0)", "#00ff00", "#0f0", "zelenyj"}

offline_indicators ==
    bot_offline_indicators \cup
    {"rgb(128, 128, 128)", "rgb(128,128,128)", "#808080", "#888", "seryj"}

\* `indicator in text`, for a text in which the tokens toks occur: an
\* indicator also occurs where a longer token contains it
ProperSubstrings == { <<"active", "inactive">>, <<"v seti", "ne v seti">> }

occurs_in(indicator, toks) ==
    \E t \in toks : indicator = t \/ <<indicator, t>> \in ProperSubstrings

any_in(indicators, toks) == \E i \in indicators : occurs_in(i, toks)

\* bot.py:80-114
detect_activity_status(html_content, nickname) ==
    IF html_content = Empty THEN Unknown
    ELSE IF any_in(bot_online_indicators, html_content.page) THEN Online
    ELSE IF any_in(bot_offline_indicators, html_content.page) THEN Offline
    ELSE Unknown

\* re.compile(nickname, re.I), scraper.py:108: over letters, "." and "(" a
\* pattern is rejected exactly when it holds a "(", which nothing closes
re_compile_raises(pattern) == \E i \in 1..Len(pattern) : pattern[i] = "("

\* scraper.py:108-111: the tokens around the first text node the nickname,
\* used as a regular expression, matches
player_section(soup, nickname) ==
    IF nickname = <<>> THEN [found |-> TRUE, toks |-> soup.head]
    ELSE IF nickname \in soup.mentions THEN [found |-> TRUE, toks |-> soup.near]
    ELSE [found |-> FALSE, toks |-> {}]

\* scraper.py:86-140; the except clause of scraper.py:138-140 answers
\* Unknown when compiling the nickname raises
scraper_detect_activity_status(soup, nickname) ==
    LET parent == player_section(soup, nickname)
    IN  IF re_compile_raises(nickname) THEN Unknown
        ELSE IF parent.found /\ any_in(online_indicators, parent.toks) THEN Online
        ELSE IF parent.found /\ any_in(offline_indicators, parent.toks) THEN Offline
        ELSE IF any_in(online_indicators, soup.page) THEN Online
        ELSE IF any_in(offline_indicators, soup.page) THEN Offline
        ELSE Unknown

----------------------------------------------------------------------------
(* The parser's status detection on its own *)

NickParen == <<"b", "(">>

\* the status tokens a scope can hold
TokenSets ==
    { {}, {"online"}, {"online", "offline"} } \cup { {t} : t \in offline_indicators }

\* pages: the element around the nickname is part of the page, so what
\* occurs near the nickname occurs in the page
StatusPages ==
    { [kind |-> "markup", id |-> "status", mentions |-> m, marker |-> TRUE,
       xp |-> NoElement, head |-> {}, near |-> n, page |-> n \cup g, rows |-> <<>>] :
        m \in { {}, {NickB}, {NickParen}, {NickB, NickParen} },
        n \in TokenSets, g \in TokenSets }

VARIABLES
    sd_soup,      \* SpecStatus: the parsed page
    sd_nick,      \* SpecStatus: the nickname
    sd_out,       \* SpecStatus: what _detect_activity_status returned
    sd_pc

sdvars == <<sd_soup, sd_nick, sd_out, sd_pc>>

StatusDetect ==
    /\ sd_pc = "ready"
    /\ sd_out' = scraper_detect_activity_status(sd_soup, sd_nick)
    /\ sd_pc' = "done"
    /\ UNCHANGED <<sd_soup, sd_nick>>

\* the element around the nickname occurrence, when the page holds one
NarrowScope(soup, nickname) ==
    IF nickname \in soup.mentions THEN soup.near ELSE {}

\* C12: the status is Online if an online token occurs in the narrow scope,
\* else Offline if an offline token occurs there, else Online if an online
\* token occurs anywhere in the page, else Offline if an offline token occurs
\* anywhere, else Unknown; it is one of the three values and detection does
\* not raise, whatever characters the nickname holds.
C12_StatusOrder ==
    sd_pc = "done" =>
        /\ sd_out \in {Online, Offline, Unknown}
        /\ sd_out =
              IF any_in(online_indicators, NarrowScope(sd_soup, sd_nick)) THEN Online
              ELSE IF any_in(offline_indicators, NarrowScope(sd_soup, sd_nick)) THEN Offline
              ELSE IF any_in(online_indicators, sd_soup.page) THEN Online
              ELSE IF any_in(offline_indicators, sd_soup.page) THEN Offline
              ELSE Unknown

\* C24: a scope whose only status text is one token of the offline list is
\* classified Offline, never Online, by the parser and by the /user command
\* (a nickname the parser cannot compile is answered Unknown, see C12).
C24_OfflineTokenIsOffline ==
    (sd_pc = "done" /\ \E t \in offline_indicators : sd_soup.page = {t}) =>
        /\ sd_out # Online
        /\ ~re_compile_raises(sd_nick) => sd_out = Offline
        /\ detect_activity_status(sd_soup, sd_nick) \in {Offline, Unknown}

\* C25: for every markup and nickname the status the /user command displays
\* for a page is the status the parser computed for it, narrow scope before
\* wide, online before offline.
C25_DisplayedIsParsed ==
    sd_pc = "done" => detect_activity_status(sd_soup, sd_nick) = sd_out

----------------------------------------------------------------------------
(* get_player_stats: the statistics tables of a profile page               *)
(* A stat row is [cells, c0, c1, c2]: the number of <td> cells and the raw  *)
(* text of cells 0, 1 and 2.  A Cyrillic letter is written "uXXXX" after    *)
(* its code point.  Tables are not nested.                                  *)

\* str.lower() on the letters the pages use
Lower(c) ==
    CASE c = "D" -> "d" [] c = "K" -> "k" [] c = "P" -> "p" [] c = "G" -> "g"
      [] c = "Y" -> "y" [] c = "N" -> "n"
      [] c = "u041f" -> "u043f" [] c = "u041e" -> "u043e" [] OTHER -> c

lower(t) == [i \in 1..Len(t) |-> Lower(t[i])]

\* `k in t` for strings
contains(t, k) ==
    \E i \in 0..(Len(t) - Len(k)) : SubSeq(t, i + 1, i + Len(k)) = k

\* str.replace(old, new) for one-character old and new
RECURSIVE replace_char(_, _, _)
replace_char(t, old, new) ==
    IF t = <<>> THEN <<>>
    ELSE <<IF t[1] = old THEN new ELSE t[1]>> \o replace_char(Tail(t), old, new)

\* scraper.py:234-247: the keywords looked for in the lowered label
kw_kills == { <<"u0443", "u043d", "u0438", "u0447", "u0442", "u043e", "u0436", "u0438", "u043b">>, <<"k", "i", "l", "l", "s">> }
kw_deaths == { <<"u043f", "u043e", "u0434", "u0431", "u0438", "u0442">>, <<"d", "e", "a", "t", "h", "s">> }
kw_kd == { <<"u0443", "/", "u043f">>, <<"k", "/", "d">>, <<"u044d", "u0444", "u0444", "u0435", "u043a", "u0442", "u0438", "u0432", "u043d", "u043e", "u0441", "u0442", "u044c">> }
kw_premium == { <<"u043f", "u0440", "u0435", "u043c", "u0438", "u0443", "u043c">>, <<"p", "r", "e", "m", "i", "u", "m">> }
kw_gold == { <<"u0437", "u043e", "u043b", "u043e", "u0442">>, <<"g", "o", "l", "d">> }
kw_yes == { <<"u0434", "u0430">>, <<"y", "e", "s">> }
kw_experience == { <<"u043f", "u043e", " ", "u043e", "u043f", "u044b", "u0442", "u0443">>, <<"u043e", "u043f", "u044b", "u0442">> }

has_any(t, keywords) == \E k \in keywords : contains(t, k)

\* the elif chain of scraper.py:234-247: the field a label selects
stat_field(key) ==
    IF has_any(key, kw_kills) THEN "kills"
    ELSE IF has_any(key, kw_deaths) THEN "deaths"
    ELSE IF has_any(key, kw_kd) THEN "kd_ratio"
    ELSE IF has_any(key, kw_premium) THEN "premium"
    ELSE IF has_any(key, kw_gold) THEN "goldboxes"
    ELSE "none"

\* int(re.sub(r'[^\d]', '', value) or 0)
stat_int(value) == DigitsToInt(Filter(value, AsciiDigits))

\* float(text): digits with at most one point and at least one digit; the
\* value is kept in thousandths
float_raises(text) ==
    LET t == Strip(text)
    IN  \/ Filter(t, AsciiDigits) = <<>>
        \/ \E i \in 1..Len(t) : t[i] \notin AsciiDigits \cup {"."}
        \/ Len(Filter(t, {"."})) > 1

py_float_milli(text) ==
    LET t == Strip(text)
        dot == IF \E i \in 1..Len(t) : t[i] = "."
               THEN CHOOSE i \in 1..Len(t) : t[i] = "." ELSE Len(t) + 1
        whole == SubSeq(t, 1, dot - 1)
        frac == SubSeq(t, dot + 1, Len(t))
        frac3 == SubSeq(frac \o <<"0", "0", "0">>, 1, 3)
    IN  DigitsToInt(whole) * 1000 + DigitsToInt(frac3)

DefaultStats ==
    [kills |-> 0, destroyed |-> 0, deaths |-> 0, kd_ratio |-> 0,
     premium |-> FALSE, goldboxes |-> 0]

stat_first_wins(stats, row) ==
    IF row.cells < 2 THEN stats
    ELSE LET key == lower(Strip(row.c0))
             value == Strip(row.c1)
             field == stat_field(key)
         IN  CASE field = "kills" /\ stats.kills = 0 ->
                    [stats EXCEPT !.kills = stat_int(value), !.destroyed = stat_int(value)]
               [] field = "deaths" /\ stats.deaths = 0 ->
                    [stats EXCEPT !.deaths = stat_int(value)]
               [] field = "kd_ratio" /\ stats.kd_ratio = 0 ->
                    IF float_raises(replace_char(value, ",", ".")) THEN stats
                    ELSE [stats EXCEPT !.kd_ratio = py_float_milli(replace_char(value, ",", "."))]
               [] field = "premium" /\ ~stats.premium ->
                    [stats EXCEPT !.premium = has_any(lower(value), kw_yes)]
               [] field = "goldboxes" /\ stats.goldboxes = 0 ->
                    [stats EXCEPT !.goldboxes = stat_int(value)]
               [] OTHER -> stats

\* scraper.py:229-248: what one row does to the statistics
stat_apply(stats, row) ==
    IF row.cells < 2 THEN stats
    ELSE LET key == lower(Strip(row.c0))
             value == Strip(row.c1)
             field == stat_field(key)
         IN  CASE field = "kills" ->
                    [stats EXCEPT !.kills = stat_int(value), !.destroyed = stat_int(value)]
               [] field = "deaths" ->
                    [stats EXCEPT !.deaths = stat_int(value)]
               [] field = "kd_ratio" ->
                    IF float_raises(replace_char(value, ",", ".")) THEN stats
                    ELSE [stats EXCEPT !.kd_ratio = py_float_milli(replace_char(value, ",", "."))]
               [] field = "premium" ->
                    [stats EXCEPT !.premium = has_any(lower(value), kw_yes)]
               [] field = "goldboxes" ->
                    [stats EXCEPT !.goldboxes = stat_int(value)]
               [] OTHER -> stats

\* the rows of all tables, in the order the loops visit them
RECURSIVE flatten(_)
flatten(tables) ==
    IF tables = <<>> THEN <<>> ELSE Head(tables) \o flatten(Tail(tables))

\* scraper.py:225-248
RECURSIVE stat_scan(_, _)
stat_scan(stats, rows) ==
    IF rows = <<>> THEN stats
    ELSE stat_scan(stat_apply(stats, Head(rows)), Tail(rows))

\* scraper.py:205-222: experience from the first row with >= 3 cells whose
\* label holds an experience keyword and whose cell 2 holds a number
RECURSIVE exp_from_tables(_)
exp_from_tables(rows) ==
    IF rows = <<>> THEN [kind |-> "none", value |-> 0]
    ELSE LET row == Head(rows)
             hit == /\ row.cells >= 3
                    /\ has_any(lower(Strip(row.c0)), kw_experience)
                    /\ xp_match(Strip(row.c2)) # <<>>
         IN  IF hit THEN xp_parse(Strip(row.c2)) ELSE exp_from_tables(Tail(rows))

\* an experience extraction in which the tables are read first
profile_experience_tables_first(page) ==
    LET bar == IF page.xp = NoElement THEN [kind |-> "none", value |-> 0]
               ELSE xp_parse(Strip(page.xp))
        tab == exp_from_tables(flatten(page.tables))
    IN  IF tab.kind = "none" THEN bar ELSE tab

\* scraper.py:191-222
profile_experience(page) ==
    LET bar == IF page.xp = NoElement THEN [kind |-> "none", value |-> 0]
               ELSE xp_parse(Strip(page.xp))
    IN  IF bar.kind = "none" THEN exp_from_tables(flatten(page.tables)) ELSE bar

NA == <<"N", "/", "A">>

\* scraper.py:166-169
DefaultRanks == [experience_rank |-> NA, kills_rank |-> NA, efficiency_rank |-> NA]

\* scraper.py:260-267: the keywords looked for in the lowered category
kw_by_experience == { <<"u043f", "u043e", " ", "u043e", "u043f", "u044b", "u0442", "u0443">> }
kw_goldboxes == { <<"u0433", "u043e", "u043b", "u0434", "u043e", "u043b", "u043e", "u0432", "u043e", "u0432">>, <<"u0437", "u043e", "u043b", "u043e", "u0442">> }
kw_by_kills == { <<"u043f", "u043e", " ", "u043a", "u0438", "u043b", "u043b", "u0430", "u043c">> }
kw_by_efficiency == { <<"u043f", "u043e", " ", "u044d", "u0444", "u0444", "u0435", "u043a", "u0442", "u0438", "u0432", "u043d", "u043e", "u0441", "u0442", "u0438">> }

\* str.replace(ch, '')
remove_char(t, ch) == Filter(t, {t[i] : i \in 1..Len(t)} \ {ch})

\* scraper.py:255-268: what one row does to the ranking positions
rank_apply(ranks, row) ==
    IF row.cells < 3 THEN ranks
    ELSE LET category == lower(Strip(row.c0))
             rank == remove_char(Strip(row.c1), "#")
             shown == IF rank # <<"0">> THEN rank ELSE NA
         IN  IF has_any(category, kw_by_experience)
             THEN [ranks EXCEPT !.experience_rank = shown]
             ELSE IF has_any(category, kw_goldboxes) THEN ranks
             ELSE IF has_any(category, kw_by_kills)
             THEN [ranks EXCEPT !.kills_rank = shown]
             ELSE IF has_any(category, kw_by_efficiency)
             THEN [ranks EXCEPT !.efficiency_rank = shown]
             ELSE ranks

\* scraper.py:252-268
RECURSIVE rank_scan(_, _)
rank_scan(ranks, rows) ==
    IF rows = <<>> THEN ranks
    ELSE rank_scan(rank_apply(ranks, Head(rows)), Tail(rows))

\* scraper.py:191-268, 290-294: the record's fields, or None when a
\* conversion raises (the exception is caught at scraper.py:292-294)
parse_profile(page) ==
    LET exp == profile_experience(page)
    IN  IF exp.kind = "raise" THEN None
        ELSE [kind |-> "record", experience |-> exp.value,
              stats |-> stat_scan(DefaultStats, flatten(page.tables)),
              ranks |-> rank_scan(DefaultRanks, flatten(page.tables))]

----------------------------------------------------------------------------
(* Profile pages the statistics parse is run on *)

MaxStatRows == 3     \* table rows on a profile page

StatRow(n, a, b) == [cells |-> n, c0 |-> a, c1 |-> b, c2 |-> <<>>]

RowDestroyed1234 == StatRow(2, <<"D", "e", "s", "t", "r", "o", "y", "e", "d">>, <<"1", ",", "2", "3", "4">>)
RowDestroyed999 == StatRow(2, <<"D", "e", "s", "t", "r", "o", "y", "e", "d">>, <<"9", "9", "9">>)
RowKills1234 == StatRow(2, <<"K", "i", "l", "l", "s">>, <<"1", ",", "2", "3", "4">>)
RowKills10 == StatRow(2, <<" ", "K", "i", "l", "l", "s", " ">>, <<"1", "0">>)
RowDeaths5 == StatRow(2, <<"D", "e", "a", "t", "h", "s">>, <<"5">>)
RowKD15 == StatRow(2, <<"K", "/", "D">>, <<"1", ".", "5">>)
RowKDBad == StatRow(2, <<"K", "/", "D">>, <<"n", "/", "a">>)
RowPremiumYes == StatRow(2, <<"P", "r", "e", "m", "i", "u", "m">>, <<"Y", "e", "s">>)
RowPremiumNo == StatRow(2, <<"P", "r", "e", "m", "i", "u", "m">>, <<"N", "o">>)
RowGold7 == StatRow(2, <<"G", "o", "l", "d">>, <<"7">>)
RowShort == StatRow(1, <<"K", "i", "l", "l", "s">>, <<>>)

StatRows ==
    { RowDestroyed1234, RowDestroyed999, RowKills1234, RowKills10, RowDeaths5,
      RowKD15, RowKDBad, RowPremiumYes, RowPremiumNo, RowGold7, RowShort }

XpTexts ==
    { NoElement,
      <<"2", " ", "1", "0", "6", " ", "/", " ", "3", " ", "7", "0", "0">>,
      <<"2", "nbsp", "1", "0", "6", " ", "/", " ", "3", "nbsp", "7", "0", "0">> }

\* the rows in one table, or the first row in a table of its own
Splits(rows) ==
    IF Len(rows) < 2 THEN { <<rows>> }
    ELSE { <<rows>>, << <<Head(rows)>>, Tail(rows) >> }

MaxRatingRows == 2     \* rows of the ratings table of a profile page

RatingRow(a, b, c) == [cells |-> 3, c0 |-> a, c1 |-> b, c2 |-> c]

RowByExp7 == RatingRow(<<"u041f", "u043e", " ", "u043e", "u043f", "u044b", "u0442", "u0443">>, <<"#", "7">>, <<"2", " ", "1", "0", "6">>)
RowByExp0 == RatingRow(<<"u041f", "u043e", " ", "u043e", "u043f", "u044b", "u0442", "u0443">>, <<"#", "0">>, <<"0">>)
RowByExpBad == RatingRow(<<"u041f", "u043e", " ", "u043e", "u043f", "u044b", "u0442", "u0443">>, <<"n", "/", "a">>, <<"5", "0", "0">>)
RowByExpDash == RatingRow(<<"u041f", "u043e", " ", "u043e", "u043f", "u044b", "u0442", "u0443">>, <<"#", "9">>, <<"-">>)
RowExpOnly == RatingRow(<<"u041e", "u043f", "u044b", "u0442">>, <<"5">>, <<"9", "9", "9">>)
RowByKills3 == RatingRow(<<"u041f", "u043e", " ", "u043a", "u0438", "u043b", "u043b", "u0430", "u043c">>, <<"3">>, <<"1", "0">>)
RowByEff12 == RatingRow(<<"u041f", "u043e", " ", "u044d", "u0444", "u0444", "u0435", "u043a", "u0442", "u0438", "u0432", "u043d", "u043e", "u0441", "u0442", "u0438">>, <<"#", "1", "2">>, <<"1", ".", "5">>)
RowByExpShort == [cells |-> 2, c0 |-> <<"u041f", "u043e", " ", "u043e", "u043f", "u044b", "u0442", "u0443">>, c1 |-> <<"#", "4">>, c2 |-> <<>>]

RatingRows ==
    { RowByExp7, RowByExp0, RowByExpBad, RowByExpDash, RowExpOnly, RowByKills3,
      RowByEff12, RowByExpShort }

ProfilePages ==
    { [xp |-> x, tables |-> t] :
        x \in XpTexts,
        t \in UNION { Splits(rows) : rows \in SeqsUpTo(StatRows, MaxStatRows) } }
    \cup
    { [xp |-> x, tables |-> <<rows>>] :
        x \in XpTexts, rows \in SeqsUpTo(RatingRows, MaxRatingRows) }

VARIABLES
    st_page,      \* SpecStats: the profile page
    st_out,       \* SpecStats: what the parse returned
    st_pc

stvars == <<st_page, st_out, st_pc>>

StatsParse ==
    /\ st_pc = "ready"
    /\ st_out' = parse_profile(st_page)
    /\ st_pc' = "done"
    /\ UNCHANGED st_page

----------------------------------------------------------------------------
(* Properties of the statistics parse *)

StatRowsOf(page) == flatten(page.tables)

\* the index of the last row satisfying P, 0 when there is none
LastIndex(rows, P(_)) ==
    LET idx == { i \in 1..Len(rows) : P(rows[i]) }
    IN  IF idx = {} THEN 0 ELSE CHOOSE i \in idx : \A j \in idx : j <= i

Labelled(row, field) ==
    row.cells >= 2 /\ stat_field(lower(Strip(row.c0))) = field

IsKillsRow(row) == Labelled(row, "kills")
IsDeathsRow(row) == Labelled(row, "deaths")
IsPremiumRow(row) == Labelled(row, "premium")
IsGoldRow(row) == Labelled(row, "goldboxes")
IsKdRow(row) == Labelled(row, "kd_ratio")
IsNumericKdRow(row) ==
    IsKdRow(row) /\ ~float_raises(replace_char(Strip(row.c1), ",", "."))

IsDestroyedRow(row) ==
    row.cells >= 2 /\ lower(Strip(row.c0)) = <<"d", "e", "s", "t", "r", "o", "y", "e", "d">>

IsDestroyedOrKillsRow(row) == IsDestroyedRow(row) \/ IsKillsRow(row)

StatsDone == st_pc = "done"

\* C11: rows labelled "Destroyed" set the kills field; the last such row
\* wins, so the values 1,234 then 999 give kills = 999.
C11_DestroyedSetsKills ==
    (StatsDone /\ st_out.kind = "record") =>
        LET rows == StatRowsOf(st_page)
            last == LastIndex(rows, IsDestroyedOrKillsRow)
        IN  (last > 0 /\ IsDestroyedRow(rows[last])) =>
                st_out.stats.kills = stat_int(Strip(rows[last].c1))

\* C14: one unparseable field does not abort the record: a non-numeric ratio
\* or an experience text with a mangled separator leaves that field at its
\* default and the parse still returns a record.
C14_FieldFailureKeepsRecord ==
    StatsDone =>
        /\ st_out.kind = "record"
        /\ (st_page.xp # NoElement /\ xp_parse(Strip(st_page.xp)).kind = "raise")
              => st_out.experience = 0
        /\ LET rows == StatRowsOf(st_page)
           IN  (LastIndex(rows, IsKdRow) > 0 /\ LastIndex(rows, IsNumericKdRow) = 0)
                  => st_out.stats.kd_ratio = 0

\* C17: when kills and deaths are both extracted and deaths > 0 the record's
\* kd_ratio is kills / deaths (to the thousandth); otherwise it is the
\* scraped ratio.
C17_DerivedKdRatio ==
    (StatsDone /\ st_out.kind = "record") =>
        LET rows == StatRowsOf(st_page)
            s == st_out.stats
            lastKd == LastIndex(rows, IsNumericKdRow)
            scraped == IF lastKd = 0 THEN 0
                       ELSE py_float_milli(replace_char(Strip(rows[lastKd].c1), ",", "."))
            d == s.kd_ratio * s.deaths - s.kills * 1000
        IN  IF /\ LastIndex(rows, IsKillsRow) > 0
               /\ LastIndex(rows, IsDeathsRow) > 0
               /\ s.deaths > 0
            THEN d < s.deaths /\ -d < s.deaths
            ELSE s.kd_ratio = scraped

IsPositionText(t) ==
    /\ t # <<>>
    /\ \A i \in 1..Len(t) : t[i] \in AsciiDigits
    /\ DigitsToInt(t) >= 1

\* C22: every ranking position in a record is an integer >= 1: the "#" is
\* stripped, "0" is absent (N/A), and a cell that is not a positive integer
\* never appears as a position.
C22_PositionsArePositive ==
    (StatsDone /\ st_out.kind = "record") =>
        \A f \in {"experience_rank", "kills_rank", "efficiency_rank"} :
            st_out.ranks[f] = NA \/ IsPositionText(st_out.ranks[f])

\* the rows the table fallback of the experience reads: at least 3 cells, an
\* experience keyword in the label, a number in cell 2
IsExperienceRow(row) ==
    /\ row.cells >= 3
    /\ has_any(lower(Strip(row.c0)), kw_experience)
    /\ xp_match(Strip(row.c2)) # <<>>

BarYieldsNumber(page) == page.xp # NoElement /\ xp_match(Strip(page.xp)) # <<>>

----------------------------------------------------------------------------
(* get_player_stats: the rank of a profile page                            *)
(* A rank page is [img, fonts]: the first <img> whose src holds imgur.com  *)
(* (NoImg when there is none) and the texts of the <font> elements whose   *)
(* style holds "gray", in document order.                                  *)

UnknownRankText == <<"U", "n", "k", "n", "o", "w", "n", " ", "R", "a", "n", "k">>
UnknownText == <<"U", "n", "k", "n", "o", "w", "n">>

\* scraper.py:50-77
KnownFiles ==
    { "a3UCeT5.png", "O6Tb9li.png", "rCN2gJm.png", "R69LmLt.png",
      "Ljy2jDX.png", "lTXxLVJ.png", "iTyjOt3.png", "BIr8vRX.png",
      "sppjRis.png", "LATOpxZ.png", "ekbJYyf.png", "GzJRzgz.png",
      "pxzNyxi.png", "UWup9qJ.png", "dSE90bT.png", "paF1myt.png",
      "wPZnaG0.png", "Or6Ajto.png", "AYAs02w.png", "M4GBQIq.png",
      "Q2YgFQ1.png", "rO3Hs5f.png", "OQEHkm7.png", "BNZpCPo.png",
      "eQXJOZE.png", "Sluzy" }

rank_mappings(filename) ==
    CASE filename = "a3UCeT5.png" -> <<"W", "a", "r", "r", "a", "n", "t", " ", "O", "f", "f", "i", "c", "e", "r", " ", "5">>
      [] filename = "O6Tb9li.png" -> <<"C", "o", "l", "o", "n", "e", "l">>
      [] filename = "rCN2gJm.png" -> <<"L", "i", "e", "u", "t", "e", "n", "a", "n", "t", " ", "C", "o", "l", "o", "n", "e", "l">>
      [] filename = "R69LmLt.png" -> <<"M", "a", "j", "o", "r">>
      [] filename = "Ljy2jDX.png" -> <<"C", "a", "p", "t", "a", "i", "n">>
      [] filename = "lTXxLVJ.png" -> <<"F", "i", "r", "s", "t", " ", "L", "i", "e", "u", "t", "e", "n", "a", "n", "t">>
      [] filename = "iTyjOt3.png" -> <<"S", "e", "c", "o", "n", "d", " ", "L", "i", "e", "u", "t", "e", "n", "a", "n", "t">>
      [] filename = "BIr8vRX.png" -> <<"W", "a", "r", "r", "a", "n", "t", " ", "O", "f", "f", "i", "c", "e", "r", " ", "4">>
      [] filename = "sppjRis.png" -> <<"W", "a", "r", "r", "a", "n", "t", " ", "O", "f", "f", "i", "c", "e", "r", " ", "3">>
      [] filename = "LATOpxZ.png" -> <<"W", "a", "r", "r", "a", "n", "t", " ", "O", "f", "f", "i", "c", "e", "r", " ", "2">>
      [] filename = "ekbJYyf.png" -> <<"W", "a", "r", "r", "a", "n", "t", " ", "O", "f", "f", "i", "c", "e", "r", " ", "1">>
      [] filename = "GzJRzgz.png" -> <<"M", "a", "s", "t", "e", "r", " ", "S", "e", "r", "g", "e", "a", "n", "t">>
      [] filename = "pxzNyxi.png" -> <<"S", "e", "r", "g", "e", "a", "n", "t", " ", "F", "i", "r", "s", "t", " ", "C", "l", "a", "s", "s">>
      [] filename = "UWup9qJ.png" -> <<"S", "t", "a", "f", "f", " ", "S", "e", "r", "g", "e", "a", "n", "t">>
      [] filename = "dSE90bT.png" -> <<"S", "e", "r", "g", "e", "a", "n", "t">>
      [] filename = "paF1myt.png" -> <<"C", "o", "r", "p", "o", "r", "a", "l">>
      [] filename = "wPZnaG0.png" -> <<"L", "a", "n", "c", "e", " ", "C", "o", "r", "p", "o", "r", "a", "l">>
      [] filename = "Or6Ajto.png" -> <<"P", "r", "i", "v", "a", "t", "e", " ", "F", "i", "r", "s", "t", " ", "C", "l", "a", "s", "s">>
      [] filename = "AYAs02w.png" -> <<"P", "r", "i", "v", "a", "t", "e">>
      [] filename = "M4GBQIq.png" -> <<"R", "e", "c", "r", "u", "i", "t">>
      [] filename = "Q2YgFQ1.png" -> <<"L", "e", "g", "e", "n", "d">>
      [] filename = "rO3Hs5f.png" -> <<"G", "e", "n", "e", "r", "a", "l", "i", "s", "s", "i", "m", "o">>
      [] filename = "OQEHkm7.png" -> <<"G", "e", "n", "e", "r", "a", "l">>
      [] filename = "BNZpCPo.png" -> <<"L", "i", "e", "u", "t", "e", "n", "a", "n", "t", " ", "G", "e", "n", "e", "r", "a", "l">>
      [] filename = "eQXJOZE.png" -> <<"M", "a", "j", "o", "r", " ", "G", "e", "n", "e", "r", "a", "l">>
      [] filename = "Sluzy" -> <<"B", "r", "i", "g", "a", "d", "i", "e", "r", " ", "G", "e", "n", "e", "r", "a", "l">>
      [] OTHER -> UnknownRankText

\* scraper.py:79-84
extract_rank_from_image(img_src) ==
    IF img_src.imgur THEN rank_mappings(img_src.filename) ELSE UnknownRankText

NoImg == [imgur |-> FALSE, filename |-> "none"]

\* scraper.py:185-189: the first gray text of 3 to 29 characters, <<>> when
\* there is none
RECURSIVE first_gray_rank(_)
first_gray_rank(fonts) ==
    IF fonts = <<>> THEN <<>>
    ELSE LET rank_text == Strip(Head(fonts))
         IN  IF rank_text # <<>> /\ 2 < Len(rank_text) /\ Len(rank_text) < 30
             THEN rank_text
             ELSE first_gray_rank(Tail(fonts))

\* a rank extraction in which the gray text fills in only a rank the image
\* did not give
extract_rank_first_hit(page) ==
    LET by_image == IF page.img # NoImg THEN extract_rank_from_image(page.img)
                    ELSE UnknownText
        by_text == first_gray_rank(page.fonts)
    IN  IF by_image \in {UnknownText, UnknownRankText} /\ by_text # <<>>
        THEN by_text ELSE by_image

\* scraper.py:159, 177-189
extract_rank(page) ==
    LET by_image == IF page.img # NoImg THEN extract_rank_from_image(page.img)
                    ELSE UnknownText
        by_text == first_gray_rank(page.fonts)
    IN  IF by_text # <<>> THEN by_text ELSE by_image

MaxFonts == 2     \* gray <font> elements on a page

Imgur(f) == [imgur |-> TRUE, filename |-> f]

RankImages ==
    { NoImg, Imgur("a3UCeT5.png"), Imgur("O6Tb9li.png"), Imgur("Sluzy.png"),
      Imgur("Sluzy"), Imgur("zzzzzzz.png") }

GrayTexts ==
    { <<>>,
      <<"O", "K">>,
      <<" ", "M", "a", "j", "o", "r", " ">>,
      <<"C", "o", "l", "o", "n", "e", "l">>,
      <<"C", "o", "m", "m", "a", "n", "d", "e", "r", " ", "o", "f", " ", "t", "h", "e", " ", "T", "a", "n", "k", " ", "B", "r", "i", "g", "a", "d", "e">>,
      <<"C", "o", "m", "m", "a", "n", "d", "e", "r", " ", "o", "f", " ", "t", "h", "e", " ", "T", "a", "n", "k", " ", "B", "r", "i", "g", "a", "d", "e", "s">> }

RankPages ==
    { [img |-> i, fonts |-> f] : i \in RankImages, f \in SeqsUpTo(GrayTexts, MaxFonts) }

VARIABLES
    rk_page,      \* SpecRank: the profile page
    rk_out,       \* SpecRank: the rank of the record
    rk_pc

rkvars == <<rk_page, rk_out, rk_pc>>

RankExtract ==
    /\ rk_pc = "ready"
    /\ rk_out' = extract_rank(rk_page)
    /\ rk_pc' = "done"
    /\ UNCHANGED rk_page

\* the image signal yields a rank: an imgur image with a filename of the table
ImageYieldsRank(page) ==
    page.img # NoImg /\ page.img.imgur /\ page.img.filename \in KnownFiles

\* C13 as stated: rank extraction is first-hit-wins, image lookup before gray
\* text: when the image yields a rank, a gray text on the page does not
\* overwrite it.
C13_ImageRankFirst ==
    (rk_pc = "done" /\ ImageYieldsRank(rk_page)) =>
        rk_out = rank_mappings(rk_page.img.filename)

\* C13, amended: the gray text is applied after the image lookup and
\* overwrites it: the rank is the first gray text of 3 to 29 characters when
\* the page has one; otherwise it is what the image lookup gave (the rank of
\* a known filename, "Unknown Rank" for another imgur image); otherwise it is
\* "Unknown".  There is no further signal.
C13_GrayTextOverwrites ==
    rk_pc = "done" =>
        LET usable == { i \in 1..Len(rk_page.fonts) :
                          LET t == Strip(rk_page.fonts[i])
                          IN  3 <= Len(t) /\ Len(t) <= 29 }
        IN  IF usable # {}
            THEN \E i \in usable :
                    /\ \A j \in usable : i <= j
                    /\ rk_out = Strip(rk_page.fonts[i])
            ELSE IF ImageYieldsRank(rk_page)
                 THEN rk_out = rank_mappings(rk_page.img.filename)
            ELSE IF rk_page.img # NoImg THEN rk_out = UnknownRankText
            ELSE rk_out = UnknownText

C13_Witness ==
    /\ rk_pc = "done"
    /\ rk_page.img = Imgur("a3UCeT5.png")
    /\ rk_page.fonts = << <<"O", "K">>, <<"C", "o", "l", "o", "n", "e", "l">> >>
    /\ rk_out = <<"C", "o", "l", "o", "n", "e", "l">>

----------------------------------------------------------------------------
(* get_player_stats: the equipment of a profile page                       *)
(* An equipment page is [sections, alts]: the texts of the <div> elements  *)
(* whose class holds "equipment" or "loadout", and the alt texts of the    *)
(* <img> elements whose alt names a turret or a hull, each in document     *)
(* order.  The record's equipment is the items joined with " | ".          *)

EquipmentCap == 5

\* scraper.py:275-278: every non-empty section text is appended
RECURSIVE section_parts(_)
section_parts(sections) ==
    IF sections = <<>> THEN <<>>
    ELSE (IF Head(sections) # "" THEN <<Head(sections)>> ELSE <<>>)
         \o section_parts(Tail(sections))

\* scraper.py:282-285: an alt text is appended unless it is empty or already
\* among the parts
RECURSIVE image_parts(_, _)
image_parts(parts, alts) ==
    IF alts = <<>> THEN parts
    ELSE LET alt_text == Head(alts)
             seen == \E i \in 1..Len(parts) : parts[i] = alt_text
         IN  image_parts(IF alt_text # "" /\ ~seen THEN Append(parts, alt_text) ELSE parts,
                         Tail(alts))

\* scraper.py:271-288
extract_equipment(page) ==
    LET equipment_parts == image_parts(section_parts(page.sections), page.alts)
    IN  SubSeq(equipment_parts, 1, Min(EquipmentCap, Len(equipment_parts)))

MaxSections == 2     \* equipment <div> elements on a page
MaxAlts == 2         \* equipment images on a page, beside the full sets

FullSet == <<"Smoky", "Hunter", "Titan", "Rail", "Wasp", "Twins", "Isida">>

EquipmentPages ==
    { [sections |-> d, alts |-> a] :
        d \in SeqsUpTo({"Smoky", "Rail", ""}, MaxSections),
        a \in { SubSeq(FullSet, 1, n) : n \in 0..Len(FullSet) }
              \cup SeqsUpTo({"Smoky", "Hunter", ""}, MaxAlts) }

VARIABLES
    eq_page,      \* SpecEquip: the profile page
    eq_out,       \* SpecEquip: the items of the record's equipment
    eq_pc

eqvars == <<eq_page, eq_out, eq_pc>>

EquipExtract ==
    /\ eq_pc = "ready"
    /\ eq_out' = extract_equipment(eq_page)
    /\ eq_pc' = "done"
    /\ UNCHANGED eq_page

\* the matching items of a page, in order
MatchingItems(page) ==
    LET all == page.sections \o page.alts
    IN  SelectSeq(all, LAMBDA x : x # "")

\* C23: the equipment holds every matching item exactly once, in order of
\* first occurrence, and is not capped: no item is dropped because more than
\* 5 were found and no string appears twice.
C23_EquipmentUncappedDeduped ==
    eq_pc = "done" =>
        LET items == MatchingItems(eq_page)
        IN  /\ \A i \in 1..Len(items) : \E k \in 1..Len(eq_out) : eq_out[k] = items[i]
            /\ \A k, l \in 1..Len(eq_out) : eq_out[k] = eq_out[l] => k = l
            /\ \A k \in 1..Len(eq_out) : \E i \in 1..Len(items) : items[i] = eq_out[k]

----------------------------------------------------------------------------
(* utils.clean_player_name, and the nickname of a leaderboard entry        *)

\* the characters of [\d\s\.\-\#]
EdgeChars == AsciiDigits \cup Whitespace \cup {".", "-", "#"}

\* the characters [^\w\s\-_\.] removes, among those names are drawn from
RemovedChars == {"!", "#"}

RECURSIVE drop_leading(_, _)
drop_leading(t, set) ==
    IF t # <<>> /\ t[1] \in set THEN drop_leading(Tail(t), set) ELSE t

RECURSIVE drop_trailing(_, _)
drop_trailing(t, set) ==
    IF t # <<>> /\ t[Len(t)] \in set
    THEN drop_trailing(SubSeq(t, 1, Len(t) - 1), set) ELSE t

\* runs of whitespace become one space; a trailing run disappears
RECURSIVE collapse(_)
collapse(t) ==
    IF t = <<>> THEN <<>>
    ELSE LET rest == collapse(Tail(t))
         IN  IF t[1] \in Whitespace
             THEN IF rest = <<>> \/ rest[1] = " " THEN rest ELSE <<" ">> \o rest
             ELSE <<t[1]>> \o rest

\* ' '.join(name.split())
join_split(t) == LStrip(collapse(t))

UnknownName == <<"U", "n", "k", "n", "o", "w", "n">>

\* utils.py:283-298
clean_player_name(name) ==
    IF name = <<>> THEN UnknownName
    ELSE LET a == Strip(drop_leading(name, EdgeChars))
             b == Strip(drop_trailing(a, EdgeChars))
             c == Filter(b, {b[i] : i \in 1..Len(b)} \ RemovedChars)
             d == join_split(c)
         IN  IF d = <<>> THEN UnknownName ELSE d

\* scraper.py:326-364: the nickname of the entry made from a row whose
\* anchor holds text
entry_nickname(text) ==
    LET row == Row(3, <<"1">>, TRUE, Strip(text), <<"5">>)
        entries == parse_leaderboard(<<row>>)
    IN  entries[1].nickname

MaxName == 3     \* characters of a name

NameChars == {"a", "1", " ", ".", "!", "#"}

Names == SeqsUpTo(NameChars, MaxName)

VARIABLES
    cn_name,      \* SpecClean: the raw name
    cn_out,       \* SpecClean: clean_player_name(name)
    cn_again,     \* SpecClean: clean_player_name of that result
    cn_entry,     \* SpecClean: the nickname of the leaderboard entry
    cn_pc

cnvars == <<cn_name, cn_out, cn_again, cn_entry, cn_pc>>

\* the name is displayed: clean_player_name is applied to it
CleanName ==
    /\ cn_pc = "ready"
    /\ cn_out' = clean_player_name(cn_name)
    /\ cn_pc' = "cleaned"
    /\ UNCHANGED <<cn_name, cn_again, cn_entry>>

\* the result is cleaned again
CleanAgain ==
    /\ cn_pc = "cleaned"
    /\ cn_again' = clean_player_name(cn_out)
    /\ cn_pc' = "done"
    /\ UNCHANGED <<cn_name, cn_out, cn_entry>>

\* the ratings page holds a row with the name in its anchor
ParseEntry ==
    /\ cn_pc = "ready"
    /\ cn_entry' = entry_nickname(cn_name)
    /\ cn_pc' = "parsed"
    /\ UNCHANGED <<cn_name, cn_out, cn_again>>

CleanEdges(t) ==
    t # <<>> => (t[1] \notin EdgeChars /\ t[Len(t)] \notin EdgeChars)

\* C27: the nickname of every leaderboard entry and every result of
\* clean_player_name neither starts nor ends with a digit, whitespace, ".",
\* "-" or "#"; clean_player_name is idempotent and never returns the empty
\* string.
C27_NamesCleaned ==
    /\ cn_pc \in {"cleaned", "done"} => (cn_out # <<>> /\ CleanEdges(cn_out))
    /\ cn_pc = "done" => cn_again = cn_out
    /\ cn_pc = "parsed" => CleanEdges(cn_entry)

----------------------------------------------------------------------------
(* translator.translate_text and its cache                                 *)
(* Texts are named; Cyrillic texts are written in Latin letters with the   *)
(* prefix "ru:".                                                           *)

TextEmpty == ""
TextAscii == "Smoky"
TextDa == "ru:da"
TextDaPadded == "ru: Da "
TextTurret == "ru:pushka"
TextHull == "ru:korpus"

Texts == {TextEmpty, TextAscii, TextDa, TextDaPadded, TextTurret, TextHull}

NotCached == "(not cached)"

\* translator.py:92: every alphabetic character of the text is ASCII
all_ascii(text) == text = TextAscii

\* text.lower().strip(), translator.py:96
normalized(text) == IF text = TextDaPadded THEN TextDa ELSE text

\* translator.py:46-62, for the texts above
InCommon(text) == text = TextDa

common_translations(text) == "yes"

\* what the external translator can do with a text: translate it, return
\* nothing, or raise (translator.py:112-117 turns a raise into None)
ExternalOutcomes ==
    { [kind |-> "ok", value |-> "cannon"], [kind |-> "ok", value |-> "gun"],
      [kind |-> "ok", value |-> ""], [kind |-> "raise", value |-> ""] }

\* translator.py:112-117: the translation, "" when there is none
translate_text_sync(outcome) == IF outcome.kind = "ok" THEN outcome.value ELSE ""

\* a translate_text that stores the input when the external translation fails
translate_text_caches_failure(cache, text, outcome) ==
    IF text = "" THEN [result |-> "", cache |-> cache, external |-> FALSE]
    ELSE IF cache[text] # NotCached
    THEN [result |-> cache[text], cache |-> cache, external |-> FALSE]
    ELSE IF all_ascii(text)
    THEN [result |-> text, cache |-> [cache EXCEPT ![text] = text], external |-> FALSE]
    ELSE IF InCommon(normalized(text))
    THEN [result |-> common_translations(normalized(text)),
          cache |-> [cache EXCEPT ![text] = common_translations(normalized(text))],
          external |-> FALSE]
    ELSE LET translated == translate_text_sync(outcome)
         IN  IF translated # ""
             THEN [result |-> translated, cache |-> [cache EXCEPT ![text] = translated],
                   external |-> TRUE]
             ELSE [result |-> text, cache |-> [cache EXCEPT ![text] = text],
                   external |-> TRUE]

\* translator.py:85-110: the result, the cache afterwards, and whether the
\* external translator was called
translate_text(cache, text, outcome) ==
    IF text = "" THEN [result |-> "", cache |-> cache, external |-> FALSE]
    ELSE IF cache[text] # NotCached
    THEN [result |-> cache[text], cache |-> cache, external |-> FALSE]
    ELSE IF all_ascii(text)
    THEN [result |-> text, cache |-> [cache EXCEPT ![text] = text], external |-> FALSE]
    ELSE IF InCommon(normalized(text))
    THEN [result |-> common_translations(normalized(text)),
          cache |-> [cache EXCEPT ![text] = common_translations(normalized(text))],
          external |-> FALSE]
    ELSE LET translated == translate_text_sync(outcome)
         IN  IF translated # ""
             THEN [result |-> translated, cache |-> [cache EXCEPT ![text] = translated],
                   external |-> TRUE]
             ELSE [result |-> text, cache |-> cache, external |-> TRUE]

MaxTranslations == 3     \* calls of translate_text in one behaviour

VARIABLES
    tr_cache,     \* translator.cache
    tr_resolved,  \* per text, the result it was first resolved to
    tr_failed,    \* the texts whose latest external translation failed
    tr_last,      \* the latest call: its text, result and what it did
    tr_count      \* calls so far

trvars == <<tr_cache, tr_resolved, tr_failed, tr_last, tr_count>>

NoCall ==
    [text |-> "", result |-> "", external |-> FALSE, ok |-> FALSE,
     resolved_before |-> NotCached, failed_before |-> FALSE, cache_before |-> NotCached]

\* one call of translate_text (translator.py:85-110)
Translate(text, outcome) ==
    /\ tr_count < MaxTranslations
    /\ LET r == translate_text(tr_cache, text, outcome)
           ok == text # "" /\ (~r.external \/ translate_text_sync(outcome) # "")
       IN  /\ tr_cache' = r.cache
           /\ tr_last' = [text |-> text, result |-> r.result, external |-> r.external,
                          ok |-> ok,
                          resolved_before |-> IF text = "" THEN NotCached ELSE tr_resolved[text],
                          failed_before |-> text \in tr_failed,
                          cache_before |-> IF text = "" THEN NotCached ELSE tr_cache[text]]
           /\ tr_resolved' = IF ok /\ tr_resolved[text] = NotCached
                             THEN [tr_resolved EXCEPT ![text] = r.result]
                             ELSE tr_resolved
           /\ tr_failed' = IF text = "" THEN tr_failed
                           ELSE IF ok THEN tr_failed \ {text}
                           ELSE tr_failed \cup {text}
    /\ tr_count' = tr_count + 1

\* C30: once a non-empty text is resolved, every later call with it returns
\* the same result and does not call the external translator; a failed
\* external translation returns the text unchanged and writes nothing to the
\* cache, so the next call with it calls the external translator again.
C30_TranslateCache ==
    tr_count > 0 =>
        /\ tr_last.resolved_before # NotCached =>
              /\ tr_last.result = tr_last.resolved_before
              /\ ~tr_last.external
        /\ (tr_last.external /\ ~tr_last.ok) =>
              /\ tr_last.result = tr_last.text
              /\ tr_cache[tr_last.text] = NotCached
              /\ tr_last.cache_before = NotCached
        /\ tr_last.failed_before => tr_last.external

C30_Witness ==
    /\ tr_count = 3
    /\ tr_last.text = TextTurret
    /\ tr_last.resolved_before = "cannon"
    /\ tr_last.result = "cannon"
    /\ ~tr_last.external
    /\ TextHull \in tr_failed

----------------------------------------------------------------------------
(* The scraper's HTTP session: _get_session and close()                    *)
(* Sessions are numbered in the order they are created; 0 stands for None. *)

MaxSessionOps == 5     \* _get_session and close() calls in one behaviour
NumLookups == 2        \* lookups that can be in progress at once

SessionIds == 1..MaxSessionOps
Lookups == 1..NumLookups

VARIABLES
    se_held,      \* scraper.session: a session id, 0 for None
    se_status,    \* per session id: "unmade", "open" or "closed"
    se_closing,   \* the session a close() in progress is closing, 0 for none
    se_last,      \* the latest _get_session: what it found and returned
    se_req,       \* per lookup: the session its request is using, 0 when idle
    se_ops        \* calls so far

sevars == <<se_held, se_status, se_closing, se_last, se_req, se_ops>>

NoGet == [created |-> FALSE, held_before |-> 0, usable_before |-> FALSE, returned |-> 0]

next_session(status) == CHOOSE i \in SessionIds : status[i] = "unmade" /\ \A j \in SessionIds : j < i => status[j] # "unmade"

\* a _get_session that makes a new session on every call
get_session_always_new(held, status) ==
    [held |-> next_session(status),
     status |-> [status EXCEPT ![next_session(status)] = "open"],
     created |-> TRUE]

\* scraper.py:19-28: the session held afterwards, the sessions' status, and
\* whether a session was created
get_session_held(held, status) ==
    IF held = 0 \/ status[held] = "closed"
    THEN [held |-> next_session(status),
          status |-> [status EXCEPT ![next_session(status)] = "open"],
          created |-> TRUE]
    ELSE [held |-> held, status |-> status, created |-> FALSE]

\* a lookup calls _get_session (scraper.py:33); the function awaits nothing,
\* so it runs in one step
GetSession(l) ==
    /\ se_ops < MaxSessionOps
    /\ se_req[l] = 0
    /\ LET r == get_session_held(se_held, se_status)
       IN  /\ se_held' = r.held
           /\ se_status' = r.status
           /\ se_last' = [created |-> r.created, held_before |-> se_held,
                          usable_before |-> se_held # 0 /\ se_status[se_held] = "open",
                          returned |-> r.held]
           /\ se_req' = [se_req EXCEPT ![l] = r.held]
    /\ se_ops' = se_ops + 1
    /\ UNCHANGED se_closing

\* the lookup's request ends, with a response or an exception
\* (scraper.py:34-44)
RequestDone(l) ==
    /\ se_req[l] # 0
    /\ se_req' = [se_req EXCEPT ![l] = 0]
    /\ UNCHANGED <<se_held, se_status, se_closing, se_last, se_ops>>

\* close() finds an open session and awaits its close (scraper.py:378-381);
\* the session may count as closed from the start of the await or only at
\* its end
CloseBegin(at_once) ==
    /\ se_ops < MaxSessionOps
    /\ se_closing = 0
    /\ se_held # 0 /\ se_status[se_held] = "open"
    /\ se_closing' = se_held
    /\ se_status' = IF at_once THEN [se_status EXCEPT ![se_held] = "closed"] ELSE se_status
    /\ se_ops' = se_ops + 1
    /\ UNCHANGED <<se_held, se_last, se_req>>

\* the awaited close ends
CloseEnd ==
    /\ se_closing # 0
    /\ se_status' = [se_status EXCEPT ![se_closing] = "closed"]
    /\ se_closing' = 0
    /\ UNCHANGED <<se_held, se_last, se_req, se_ops>>

OpenSessions == { i \in SessionIds : se_status[i] = "open" }

\* C28: at most one session is open at any time; _get_session creates a
\* session only when none is held or the held one is closed and otherwise
\* returns the held one unchanged; the session it returns is never a closed
\* one, so a lookup after close() gets a fresh session; lookups in progress
\* together on open sessions share one session.
C28_OneOpenSession ==
    /\ Cardinality(OpenSessions) <= 1
    /\ OpenSessions \subseteq {se_held}
    /\ \A l1, l2 \in Lookups :
          (se_req[l1] \in OpenSessions /\ se_req[l2] \in OpenSessions) => se_req[l1] = se_req[l2]
    /\ se_last # NoGet =>
          /\ se_last.created = ~se_last.usable_before
          /\ ~se_last.created => se_last.returned = se_last.held_before
          /\ se_last.created => se_last.returned # se_last.held_before

C28_Witness ==
    /\ ~se_last.created
    /\ se_last.returned = 2
    /\ se_status[1] = "closed"
    /\ OpenSessions = {2}
    /\ \A l \in Lookups : se_req[l] = 2

----------------------------------------------------------------------------
(* on_ready and the hourly leaderboard task                                 *)

MaxReady == 3        \* on_ready events in one behaviour
MaxIterations == 2   \* iterations of the hourly task that are followed

ReadyEvents == 1..MaxReady

VARIABLES
    rd_pc,        \* per on_ready event: "idle", "sleep", "sync" or "done"
    rd_running,   \* hourly_leaderboard.is_running()
    rd_launched,  \* instances of the hourly task created by start()
    rd_refused,   \* start() calls made while the task was running
    rd_iters      \* iterations of the hourly task body so far

rdvars == <<rd_pc, rd_running, rd_launched, rd_refused, rd_iters>>

\* an on_ready that calls start() without asking is_running()
start_hourly_unchecked(running) == TRUE

\* bot.py:58-59: whether on_ready calls hourly_leaderboard.start()
start_hourly(running) == ~running

\* an on_ready event is dispatched and runs up to its sleep (bot.py:29-34)
Ready(e) ==
    /\ rd_pc[e] = "idle"
    /\ rd_pc' = [rd_pc EXCEPT ![e] = "sleep"]
    /\ UNCHANGED <<rd_running, rd_launched, rd_refused, rd_iters>>

\* the sleep ends and the handler awaits the command sync (bot.py:37-40)
SleepDone(e) ==
    /\ rd_pc[e] = "sleep"
    /\ rd_pc' = [rd_pc EXCEPT ![e] = "sync"]
    /\ UNCHANGED <<rd_running, rd_launched, rd_refused, rd_iters>>

\* the sync returns or raises (every exception is caught, bot.py:44-52) and
\* the handler runs to its end with no further await (bot.py:55-59)
SyncDone(e) ==
    /\ rd_pc[e] = "sync"
    /\ rd_pc' = [rd_pc EXCEPT ![e] = "done"]
    /\ IF start_hourly(rd_running)
       THEN IF rd_running
            THEN /\ rd_refused' = rd_refused + 1
                 /\ UNCHANGED <<rd_running, rd_launched>>
            ELSE /\ rd_running' = TRUE
                 /\ rd_launched' = rd_launched + 1
                 /\ UNCHANGED rd_refused
       ELSE UNCHANGED <<rd_running, rd_launched, rd_refused>>
    /\ UNCHANGED rd_iters

\* one iteration of the task body; it catches every exception, so the loop
\* goes on (bot.py:587-597)
HourlyIteration ==
    /\ rd_running
    /\ rd_iters < MaxIterations
    /\ rd_iters' = rd_iters + 1
    /\ UNCHANGED <<rd_pc, rd_running, rd_launched, rd_refused>>

\* C29: over any number of on_ready events start() is never called while the
\* hourly task is running, at most one instance of the task is ever created,
\* and the task is running once any on_ready handler has finished.
C29_HourlyStartedOnce ==
    /\ rd_refused = 0
    /\ rd_launched <= 1
    /\ rd_running <=> rd_launched = 1
    /\ (\E e \in ReadyEvents : rd_pc[e] = "done") => rd_running
    /\ rd_iters > 0 => rd_running

C29_Witness ==
    /\ Cardinality({ e \in ReadyEvents : rd_pc[e] = "done" }) >= 2
    /\ rd_launched = 1
    /\ rd_iters > 0

----------------------------------------------------------------------------
(* The scraper and the commands that call it *)

VARIABLES
    session,      \* scraper.session: "None", "open" or "closed"
    last_html,    \* scraper._last_html_content
    calls,        \* the command invocations in progress, by slot
    now,          \* seconds since the process started
    stored,       \* per lookup key, the last non-empty result and its time
    invoked       \* number of commands invoked so far

svcvars == <<session, last_html, calls, now, stored, invoked>>

vars == <<lb_page, lb_out, lb_pc, xp_n, xp_text, xp_out, xp_pc,
          st_page, st_out, st_pc, sd_soup, sd_nick, sd_out, sd_pc,
          rk_page, rk_out, rk_pc, eq_page, eq_out, eq_pc,
          cn_name, cn_out, cn_again, cn_entry, cn_pc,
          tr_cache, tr_resolved, tr_failed, tr_last, tr_count,
          se_held, se_status, se_closing, se_last, se_req, se_ops,
          rd_pc, rd_running, rd_launched, rd_refused, rd_iters,
          session, last_html, calls, now, stored, invoked>>

NumSlots == 2          \* commands that can be in progress at once
MaxInvocations == 2    \* commands invoked in one behaviour
TimeStep == 450        \* seconds the clock advances by
MaxNow == 900          \* the clock stops here

player_cache_ttl == 300
leaderboard_cache_ttl == 900

Slots == 1..NumSlots

Commands == {"user", "player", "leaderboard"}

Args(cmd) ==
    CASE cmd = "leaderboard" -> Categories
      [] cmd = "user" -> Nicknames
      [] cmd = "player" -> {NickB}

Key(cmd, arg) == IF cmd = "leaderboard" THEN <<"leaderboard", arg>> ELSE <<"player", arg>>

Keys == { Key(cmd, arg) : cmd \in {"player", "leaderboard"}, arg \in Categories \cup Nicknames }

Ttl(cmd) == IF cmd = "leaderboard" THEN leaderboard_cache_ttl ELSE player_cache_ttl

\* scraper.py:19-28
get_session(s) == IF s = "None" \/ s = "closed" THEN "open" ELSE s

\* scraper.py:146
player_url(nickname) == [path |-> "user", nick |-> nickname]

\* a ratings URL of its own for every category
leaderboard_url_by_category(category) == [path |-> "ratings", nick |-> category]

\* scraper.py:300-308
leaderboard_url(category) ==
    IF category = <<"experience">> THEN BaseUrl
    ELSE IF category = <<"crystals">> THEN BaseUrl
    ELSE BaseUrl

url_of(cmd, arg) == IF cmd = "leaderboard" THEN leaderboard_url(arg) ELSE player_url(arg)

parse_player_uncaught(soup, nickname) ==
    LET xp == IF soup.xp = NoElement THEN [kind |-> "none", value |-> 0]
              ELSE xp_parse(Strip(soup.xp))
    IN  IF xp.kind = "raise" THEN [kind |-> "raised"]
        ELSE [kind |-> "record",
              nickname |-> nickname,
              experience |-> xp.value,
              activity_status |-> scraper_detect_activity_status(soup, nickname)]

\* scraper.py:153-294: the record, or None when the parse raises (the
\* exception is caught at scraper.py:292-294)
parse_player(soup, nickname) ==
    LET xp == IF soup.xp = NoElement THEN [kind |-> "none", value |-> 0]
              ELSE xp_parse(Strip(soup.xp))
    IN  IF xp.kind = "raise" THEN None
        ELSE [kind |-> "record",
              nickname |-> nickname,
              experience |-> xp.value,
              activity_status |-> scraper_detect_activity_status(soup, nickname)]

\* the markup a call parses: its own local html_content
html_of(call, shared) == call.html

\* scraper.py:150-294
get_player_stats_result(html_content, nickname) ==
    IF html_content = Empty THEN None ELSE parse_player(html_content, nickname)

\* a lookup that returns None when no row is accepted
get_leaderboard_result_absent(html_content) ==
    IF html_content = Empty THEN None
    ELSE IF parse_leaderboard(html_content.rows) = <<>> THEN None
    ELSE [kind |-> "list", items |-> parse_leaderboard(html_content.rows)]

\* scraper.py:311-372
get_leaderboard_result(html_content) ==
    IF html_content = Empty THEN None
    ELSE [kind |-> "list", items |-> parse_leaderboard(html_content.rows)]

\* a lookup that answers from the stored entry whatever its age
lookup_result_stored(cmd, arg, html_content) ==
    IF stored[Key(cmd, arg)] # None THEN stored[Key(cmd, arg)].value
    ELSE IF cmd = "leaderboard" THEN get_leaderboard_result(html_content)
    ELSE get_player_stats_result(html_content, arg)

lookup_result(cmd, arg, html_content) ==
    IF cmd = "leaderboard" THEN get_leaderboard_result(html_content)
    ELSE get_player_stats_result(html_content, arg)

\* `not player_data` / `not leaderboard_data` in the command handlers
falsy(result) == result = None \/ (result.kind = "list" /\ result.items = <<>>)

\* bot.py:314-337, 365-381, 435-446
reply_for(result) == IF falsy(result) THEN "not_found" ELSE "embed"

\* a handler that does not return after the not-found message: building the
\* embed from None raises and the except clause sends the error message
followups_noreturn(result) ==
    IF falsy(result) THEN <<"not_found", "error">> ELSE <<"embed">>

\* bot.py:314-347, 365-391, 435-456: the follow-up messages a handler sends
followups(result) == IF falsy(result) THEN <<"not_found">> ELSE <<"embed">>

\* bot.py:329-330
shown_status(cmd, arg, result, shared) ==
    IF cmd = "user" /\ ~falsy(result) THEN detect_activity_status(shared, arg) ELSE "none"

max_retries == 3

\* a fetch that is tried again until max_retries GETs were issued
fetch_failed_retry(call, failure) ==
    IF call.gets < max_retries THEN [call EXCEPT !.gets = call.gets + 1]
    ELSE [call EXCEPT !.pc = "done", !.outcome = failure, !.result = None,
                      !.reply = reply_for(None), !.msgs = followups(None)]

\* scraper.py:39-44, 150-151, 311-312: a failed GET makes _fetch_page return
\* None, the lookup return None, and the handler reply
fetch_failed(call, failure) ==
    [call EXCEPT !.pc = "done", !.outcome = failure, !.result = None,
                 !.reply = reply_for(None), !.msgs = followups(None)]

IdleCall ==
    [pc |-> "idle", cmd |-> "none", arg |-> <<>>, url |-> NoUrl, html |-> None,
     outcome |-> "none", result |-> None, gets |-> 0, reply |-> "none",
     shown |-> "none", msgs |-> <<>>,
     fresh |-> None, stale |-> None]

SvcInit ==
    /\ session = "None"
    /\ last_html = Empty
    /\ calls = [c \in Slots |-> IdleCall]
    /\ now = 0
    /\ stored = [k \in Keys |-> None]
    /\ invoked = 0

Busy(c) == calls[c].pc \in {"requesting", "fetched"}

\* A command is invoked: the handler runs up to the GET it awaits
\* (bot.py:308-312, scraper.py:146-149, 30-34).
Invoke(c, cmd, arg) ==
    /\ ~Busy(c)
    /\ \A d \in Slots : d < c => Busy(d)
    /\ invoked < MaxInvocations
    /\ invoked' = invoked + 1
    /\ session' = get_session(session)
    /\ calls' = [calls EXCEPT ![c] =
          [IdleCall EXCEPT
             !.pc = "requesting", !.cmd = cmd, !.arg = arg,
             !.url = url_of(cmd, arg), !.gets = 1,
             !.fresh = IF stored[Key(cmd, arg)] # None
                          /\ now - stored[Key(cmd, arg)].at < Ttl(cmd)
                       THEN stored[Key(cmd, arg)].value ELSE None,
             !.stale = IF stored[Key(cmd, arg)] # None
                          /\ now - stored[Key(cmd, arg)].at >= Ttl(cmd)
                       THEN stored[Key(cmd, arg)].value ELSE None]]
    /\ UNCHANGED <<last_html, now, stored>>

\* The GET ends without a 200 response: _fetch_page returns None, the lookup
\* returns None and the handler replies (scraper.py:39-44, 150-151).
RespondFail(c, failure) ==
    /\ calls[c].pc = "requesting"
    /\ calls' = [calls EXCEPT ![c] = fetch_failed(calls[c], failure)]
    /\ UNCHANGED <<session, last_html, now, stored, invoked>>

\* The GET ends with status 200 and body content: _fetch_page stores the
\* body and leaves the `async with` block (scraper.py:35-38).
Respond200(c, content) ==
    /\ calls[c].pc = "requesting"
    /\ last_html' = content
    /\ calls' = [calls EXCEPT ![c].pc = "fetched", ![c].outcome = "200",
                              ![c].html = content]
    /\ UNCHANGED <<session, now, stored, invoked>>

\* The call resumes after the `async with` block: the lookup parses its
\* markup and returns, the handler replies (scraper.py:150-294, 311-372,
\* bot.py:314-337).
Resume(c) ==
    /\ calls[c].pc = "fetched"
    /\ LET call == calls[c]
           result == lookup_result(call.cmd, call.arg, html_of(call, last_html))
       IN  /\ calls' = [calls EXCEPT
                 ![c].pc = "done", ![c].result = result,
                 ![c].reply = reply_for(result),
                 ![c].msgs = followups(result),
                 ![c].shown = shown_status(call.cmd, call.arg, result, last_html)]
           /\ stored' = IF falsy(result) THEN stored
                        ELSE [stored EXCEPT ![Key(call.cmd, call.arg)] =
                                 [value |-> result, at |-> now]]
    /\ UNCHANGED <<session, last_html, now, invoked>>

Tick ==
    /\ now + TimeStep <= MaxNow
    /\ now' = now + TimeStep
    /\ UNCHANGED <<session, last_html, calls, stored, invoked>>

----------------------------------------------------------------------------
(* Properties of the lookups *)

Done(c) == calls[c].pc = "done"

PlayerCall(c) == calls[c].cmd \in {"user", "player"}

\* C3: whatever the fetch outcome and the markup, a lookup returns a record,
\* a sequence or None and raises nothing; after a failed fetch (timeout,
\* connection error, non-200 status, empty body) it returns None.
C3_NeverRaises ==
    \A c \in Slots : Done(c) =>
        /\ calls[c].result.kind \in {"none", "record", "list"}
        /\ calls[c].reply \in {"not_found", "embed"}
        /\ (calls[c].outcome \in FetchFailures \/ calls[c].html = Empty)
              => calls[c].result = None

C3_Witness ==
    \E c, d \in Slots :
        /\ Done(c) /\ calls[c].html = ProfileNbsp /\ calls[c].result = None
        /\ Done(d) /\ calls[d].outcome = "timeout" /\ calls[d].result = None

\* C4: a lookup made while a stored result for the same key is younger than
\* the TTL returns that result and issues no HTTP request.
C4_CacheHit ==
    \A c \in Slots : (calls[c].pc # "idle" /\ calls[c].fresh # None) =>
        /\ calls[c].gets = 0
        /\ Done(c) => calls[c].result = calls[c].fresh

\* C5: a lookup made when the stored result for its key has reached the TTL
\* of its kind performs a fetch of its own and returns what that fetch
\* gives, not the stored value.
C5_NoExpiredData ==
    \A c \in Slots : (calls[c].pc # "idle" /\ calls[c].stale # None) =>
        /\ calls[c].gets = 1
        /\ Done(c) =>
              calls[c].result =
                 IF calls[c].outcome = "200"
                 THEN IF calls[c].cmd = "leaderboard"
                      THEN get_leaderboard_result(calls[c].html)
                      ELSE get_player_stats_result(calls[c].html, calls[c].arg)
                 ELSE None

C5_Witness ==
    \E c \in Slots :
        /\ Done(c)
        /\ calls[c].stale # None
        /\ ~falsy(calls[c].result)
        /\ calls[c].result # calls[c].stale

\* C6: the result of a call, the activity status /user shows included, is
\* computed from the markup that call fetched.
C6_OwnMarkupOnly ==
    \A c \in Slots : (Done(c) /\ calls[c].cmd = "user" /\ ~falsy(calls[c].result)) =>
        calls[c].shown = detect_activity_status(calls[c].html, calls[c].arg)

\* C7: every invocation issues exactly one GET; a failed GET is not retried
\* and the lookup returns None at once.
C7_OneGetNoRetry ==
    \A c \in Slots :
        /\ calls[c].pc # "idle" => calls[c].gets = 1
        /\ (Done(c) /\ calls[c].outcome \in FetchFailures) => calls[c].result = None

C7_Witness ==
    \E c \in Slots :
        /\ Done(c)
        /\ calls[c].outcome = "connection_error"
        /\ calls[c].gets = 1
        /\ calls[c].reply = "not_found"

\* C8: a fetched page with no profile marker that does not contain the
\* nickname makes get_player_stats return None.
C8_NotFoundIsAbsent ==
    \A c \in Slots :
        ( /\ Done(c) /\ PlayerCall(c)
          /\ calls[c].outcome = "200"
          /\ calls[c].html # Empty
          /\ ~calls[c].html.marker
          /\ calls[c].arg \notin calls[c].html.mentions )
        => calls[c].result = None

\* C9: get_player_stats trims the nickname: an empty or whitespace-only
\* nickname issues no HTTP request and yields no record, any other nickname
\* is fetched and echoed trimmed.
C9_NicknameTrimmed ==
    \A c \in Slots : (calls[c].pc # "idle" /\ PlayerCall(c)) =>
        IF Strip(calls[c].arg) = <<>>
        THEN calls[c].gets = 0 /\ calls[c].result = None
        ELSE /\ calls[c].url = player_url(Strip(calls[c].arg))
             /\ calls[c].result.kind = "record"
                   => calls[c].result.nickname = Strip(calls[c].arg)

\* a leaderboard call that fetched a page none of whose rows is accepted
EmptyParse(c) ==
    /\ Done(c) /\ calls[c].cmd = "leaderboard"
    /\ calls[c].outcome = "200" /\ calls[c].html # Empty
    /\ parse_leaderboard(calls[c].html.rows) = <<>>

C16_CategoryIgnored ==
    \A c, d \in Slots :
        /\ (calls[c].pc # "idle" /\ calls[c].cmd = "leaderboard") => calls[c].url = BaseUrl
        /\ ( /\ Done(c) /\ calls[c].cmd = "leaderboard" /\ calls[c].outcome = "200"
             /\ Done(d) /\ calls[d].cmd = "leaderboard" /\ calls[d].outcome = "200"
             /\ calls[c].html = calls[d].html )
           => calls[c].result = calls[d].result

C16_Witness ==
    \E c, d \in Slots :
        /\ Done(c) /\ calls[c].cmd = "leaderboard" /\ calls[c].arg = <<"experience">>
        /\ Done(d) /\ calls[d].cmd = "leaderboard" /\ calls[d].arg = <<"kills">>
        /\ calls[c].html = RatingsPage /\ calls[d].html = RatingsPage
        /\ calls[c].result = calls[d].result
        /\ calls[c].result.kind = "list" /\ Len(calls[c].result.items) = 2

----------------------------------------------------------------------------
(* Specifications *)

\* Spec: the scraper and its commands; the parse-only variables stay idle
Init ==
    /\ SvcInit
    /\ tr_cache = <<>> /\ tr_resolved = <<>> /\ tr_failed = {} /\ tr_last = NoCall /\ tr_count = 0
    /\ se_held = 0 /\ se_status = [i \in SessionIds |-> "unmade"] /\ se_closing = 0 /\ se_last = NoGet /\ se_req = [l \in Lookups |-> 0] /\ se_ops = 0
    /\ rd_pc = [e \in ReadyEvents |-> "idle"] /\ rd_running = FALSE /\ rd_launched = 0 /\ rd_refused = 0 /\ rd_iters = 0
    /\ cn_name = <<>> /\ cn_out = <<>> /\ cn_again = <<>> /\ cn_entry = <<>> /\ cn_pc = "off"
    /\ eq_page = <<>> /\ eq_out = <<>> /\ eq_pc = "off"
    /\ rk_page = <<>> /\ rk_out = <<>> /\ rk_pc = "off"
    /\ sd_soup = Empty /\ sd_nick = <<>> /\ sd_out = "none" /\ sd_pc = "off"
    /\ lb_page = <<>> /\ lb_out = <<>> /\ lb_pc = "off"
    /\ xp_n = 0 /\ xp_text = <<>> /\ xp_out = None /\ xp_pc = "off"
    /\ st_page = <<>> /\ st_out = None /\ st_pc = "off"

Next ==
    \/ \E c \in Slots, cmd \in Commands : \E arg \in Args(cmd) :
          Invoke(c, cmd, arg) /\ UNCHANGED <<lbvars, xpvars, stvars, sdvars, rkvars, eqvars, cnvars, trvars, sevars, rdvars>>
    \/ \E c \in Slots, f \in FetchFailures :
          RespondFail(c, f) /\ UNCHANGED <<lbvars, xpvars, stvars, sdvars, rkvars, eqvars, cnvars, trvars, sevars, rdvars>>
    \/ \E c \in Slots : \E m \in Serves(calls[c].url) \cup {Empty} :
          Respond200(c, m) /\ UNCHANGED <<lbvars, xpvars, stvars, sdvars, rkvars, eqvars, cnvars, trvars, sevars, rdvars>>
    \/ \E c \in Slots : Resume(c) /\ UNCHANGED <<lbvars, xpvars, stvars, sdvars, rkvars, eqvars, cnvars, trvars, sevars, rdvars>>
    \/ Tick /\ UNCHANGED <<lbvars, xpvars, stvars, sdvars, rkvars, eqvars, cnvars, trvars, sevars, rdvars>>

Spec == Init /\ [][Next]_vars

LBNext == LBParse /\ UNCHANGED <<xpvars, stvars, sdvars, rkvars, eqvars, cnvars, trvars, sevars, rdvars, svcvars>>

\* SpecLB: the leaderboard parse applied to every page of LBPages
LBInit ==
    /\ lb_page \in LBPages
    /\ lb_out = <<>>
    /\ lb_pc = "ready"
    /\ xp_n = 0 /\ xp_text = <<>> /\ xp_out = None /\ xp_pc = "off"
    /\ st_page = <<>> /\ st_out = None /\ st_pc = "off"
    /\ sd_soup = Empty /\ sd_nick = <<>> /\ sd_out = "none" /\ sd_pc = "off"
    /\ rk_page = <<>> /\ rk_out = <<>> /\ rk_pc = "off"
    /\ eq_page = <<>> /\ eq_out = <<>> /\ eq_pc = "off"
    /\ cn_name = <<>> /\ cn_out = <<>> /\ cn_again = <<>> /\ cn_entry = <<>> /\ cn_pc = "off"
    /\ tr_cache = <<>> /\ tr_resolved = <<>> /\ tr_failed = {} /\ tr_last = NoCall /\ tr_count = 0
    /\ se_held = 0 /\ se_status = [i \in SessionIds |-> "unmade"] /\ se_closing = 0 /\ se_last = NoGet /\ se_req = [l \in Lookups |-> 0] /\ se_ops = 0
    /\ rd_pc = [e \in ReadyEvents |-> "idle"] /\ rd_running = FALSE /\ rd_launched = 0 /\ rd_refused = 0 /\ rd_iters = 0
    /\ session = "None" /\ last_html = Empty /\ calls = <<>>
    /\ now = 0 /\ stored = <<>> /\ invoked = 0

SpecLB == LBInit /\ [][LBNext]_vars

XPNext == XPParse /\ UNCHANGED <<lbvars, stvars, sdvars, rkvars, eqvars, cnvars, trvars, sevars, rdvars, svcvars>>

\* SpecXP: the progress-bar parse applied to formatted numbers
XPInit ==
    /\ xp_n \in (0..MaxXP) \cup XPSamples
    /\ \E sep \in XPSeparators, suffix \in XPSuffixes :
          xp_text = Grouped(xp_n, sep) \o suffix
    /\ xp_out = None
    /\ xp_pc = "ready"
    /\ lb_page = <<>> /\ lb_out = <<>> /\ lb_pc = "off"
    /\ st_page = <<>> /\ st_out = None /\ st_pc = "off"
    /\ sd_soup = Empty /\ sd_nick = <<>> /\ sd_out = "none" /\ sd_pc = "off"
    /\ rk_page = <<>> /\ rk_out = <<>> /\ rk_pc = "off"
    /\ eq_page = <<>> /\ eq_out = <<>> /\ eq_pc = "off"
    /\ cn_name = <<>> /\ cn_out = <<>> /\ cn_again = <<>> /\ cn_entry = <<>> /\ cn_pc = "off"
    /\ tr_cache = <<>> /\ tr_resolved = <<>> /\ tr_failed = {} /\ tr_last = NoCall /\ tr_count = 0
    /\ se_held = 0 /\ se_status = [i \in SessionIds |-> "unmade"] /\ se_closing = 0 /\ se_last = NoGet /\ se_req = [l \in Lookups |-> 0] /\ se_ops = 0
    /\ rd_pc = [e \in ReadyEvents |-> "idle"] /\ rd_running = FALSE /\ rd_launched = 0 /\ rd_refused = 0 /\ rd_iters = 0
    /\ session = "None" /\ last_html = Empty /\ calls = <<>>
    /\ now = 0 /\ stored = <<>> /\ invoked = 0

SpecXP == XPInit /\ [][XPNext]_vars

StatsNext == StatsParse /\ UNCHANGED <<lbvars, xpvars, sdvars, rkvars, eqvars, cnvars, trvars, sevars, rdvars, svcvars>>

\* SpecStats: the statistics parse applied to every page of ProfilePages
StatsInit ==
    /\ st_page \in ProfilePages
    /\ st_out = None
    /\ st_pc = "ready"
    /\ lb_page = <<>> /\ lb_out = <<>> /\ lb_pc = "off"
    /\ xp_n = 0 /\ xp_text = <<>> /\ xp_out = None /\ xp_pc = "off"
    /\ sd_soup = Empty /\ sd_nick = <<>> /\ sd_out = "none" /\ sd_pc = "off"
    /\ rk_page = <<>> /\ rk_out = <<>> /\ rk_pc = "off"
    /\ eq_page = <<>> /\ eq_out = <<>> /\ eq_pc = "off"
    /\ cn_name = <<>> /\ cn_out = <<>> /\ cn_again = <<>> /\ cn_entry = <<>> /\ cn_pc = "off"
    /\ tr_cache = <<>> /\ tr_resolved = <<>> /\ tr_failed = {} /\ tr_last = NoCall /\ tr_count = 0
    /\ se_held = 0 /\ se_status = [i \in SessionIds |-> "unmade"] /\ se_closing = 0 /\ se_last = NoGet /\ se_req = [l \in Lookups |-> 0] /\ se_ops = 0
    /\ rd_pc = [e \in ReadyEvents |-> "idle"] /\ rd_running = FALSE /\ rd_launched = 0 /\ rd_refused = 0 /\ rd_iters = 0
    /\ session = "None" /\ last_html = Empty /\ calls = <<>>
    /\ now = 0 /\ stored = <<>> /\ invoked = 0

SpecStats == StatsInit /\ [][StatsNext]_vars

StatusNext == StatusDetect /\ UNCHANGED <<lbvars, xpvars, stvars, rkvars, eqvars, cnvars, trvars, sevars, rdvars, svcvars>>

\* SpecStatus: the status detection applied to every page of StatusPages
StatusInit ==
    /\ sd_soup \in StatusPages
    /\ sd_nick \in {NickB, NickParen}
    /\ sd_out = "none"
    /\ sd_pc = "ready"
    /\ lb_page = <<>> /\ lb_out = <<>> /\ lb_pc = "off"
    /\ xp_n = 0 /\ xp_text = <<>> /\ xp_out = None /\ xp_pc = "off"
    /\ st_page = <<>> /\ st_out = None /\ st_pc = "off"
    /\ rk_page = <<>> /\ rk_out = <<>> /\ rk_pc = "off"
    /\ eq_page = <<>> /\ eq_out = <<>> /\ eq_pc = "off"
    /\ cn_name = <<>> /\ cn_out = <<>> /\ cn_again = <<>> /\ cn_entry = <<>> /\ cn_pc = "off"
    /\ tr_cache = <<>> /\ tr_resolved = <<>> /\ tr_failed = {} /\ tr_last = NoCall /\ tr_count = 0
    /\ se_held = 0 /\ se_status = [i \in SessionIds |-> "unmade"] /\ se_closing = 0 /\ se_last = NoGet /\ se_req = [l \in Lookups |-> 0] /\ se_ops = 0
    /\ rd_pc = [e \in ReadyEvents |-> "idle"] /\ rd_running = FALSE /\ rd_launched = 0 /\ rd_refused = 0 /\ rd_iters = 0
    /\ session = "None" /\ last_html = Empty /\ calls = <<>>
    /\ now = 0 /\ stored = <<>> /\ invoked = 0

SpecStatus == StatusInit /\ [][StatusNext]_vars

RankNext == RankExtract /\ UNCHANGED <<lbvars, xpvars, stvars, sdvars, eqvars, cnvars, trvars, sevars, rdvars, svcvars>>

\* SpecRank: the rank extraction applied to every page of RankPages
RankInit ==
    /\ rk_page \in RankPages
    /\ rk_out = <<>>
    /\ rk_pc = "ready"
    /\ lb_page = <<>> /\ lb_out = <<>> /\ lb_pc = "off"
    /\ xp_n = 0 /\ xp_text = <<>> /\ xp_out = None /\ xp_pc = "off"
    /\ st_page = <<>> /\ st_out = None /\ st_pc = "off"
    /\ sd_soup = Empty /\ sd_nick = <<>> /\ sd_out = "none" /\ sd_pc = "off"
    /\ eq_page = <<>> /\ eq_out = <<>> /\ eq_pc = "off"
    /\ cn_name = <<>> /\ cn_out = <<>> /\ cn_again = <<>> /\ cn_entry = <<>> /\ cn_pc = "off"
    /\ tr_cache = <<>> /\ tr_resolved = <<>> /\ tr_failed = {} /\ tr_last = NoCall /\ tr_count = 0
    /\ se_held = 0 /\ se_status = [i \in SessionIds |-> "unmade"] /\ se_closing = 0 /\ se_last = NoGet /\ se_req = [l \in Lookups |-> 0] /\ se_ops = 0
    /\ rd_pc = [e \in ReadyEvents |-> "idle"] /\ rd_running = FALSE /\ rd_launched = 0 /\ rd_refused = 0 /\ rd_iters = 0
    /\ session = "None" /\ last_html = Empty /\ calls = <<>>
    /\ now = 0 /\ stored = <<>> /\ invoked = 0

SpecRank == RankInit /\ [][RankNext]_vars

EquipNext == EquipExtract /\ UNCHANGED <<lbvars, xpvars, stvars, sdvars, rkvars, cnvars, trvars, sevars, rdvars, svcvars>>

\* SpecEquip: the equipment extraction applied to every page of EquipmentPages
EquipInit ==
    /\ eq_page \in EquipmentPages
    /\ eq_out = <<>>
    /\ eq_pc = "ready"
    /\ lb_page = <<>> /\ lb_out = <<>> /\ lb_pc = "off"
    /\ xp_n = 0 /\ xp_text = <<>> /\ xp_out = None /\ xp_pc = "off"
    /\ st_page = <<>> /\ st_out = None /\ st_pc = "off"
    /\ sd_soup = Empty /\ sd_nick = <<>> /\ sd_out = "none" /\ sd_pc = "off"
    /\ rk_page = <<>> /\ rk_out = <<>> /\ rk_pc = "off"
    /\ cn_name = <<>> /\ cn_out = <<>> /\ cn_again = <<>> /\ cn_entry = <<>> /\ cn_pc = "off"
    /\ tr_cache = <<>> /\ tr_resolved = <<>> /\ tr_failed = {} /\ tr_last = NoCall /\ tr_count = 0
    /\ se_held = 0 /\ se_status = [i \in SessionIds |-> "unmade"] /\ se_closing = 0 /\ se_last = NoGet /\ se_req = [l \in Lookups |-> 0] /\ se_ops = 0
    /\ rd_pc = [e \in ReadyEvents |-> "idle"] /\ rd_running = FALSE /\ rd_launched = 0 /\ rd_refused = 0 /\ rd_iters = 0
    /\ session = "None" /\ last_html = Empty /\ calls = <<>>
    /\ now = 0 /\ stored = <<>> /\ invoked = 0

SpecEquip == EquipInit /\ [][EquipNext]_vars

CleanNext ==
    \/ CleanName /\ UNCHANGED <<lbvars, xpvars, stvars, sdvars, rkvars, eqvars, trvars, sevars, rdvars, svcvars>>
    \/ CleanAgain /\ UNCHANGED <<lbvars, xpvars, stvars, sdvars, rkvars, eqvars, trvars, sevars, rdvars, svcvars>>
    \/ ParseEntry /\ UNCHANGED <<lbvars, xpvars, stvars, sdvars, rkvars, eqvars, trvars, sevars, rdvars, svcvars>>

\* SpecClean: names are cleaned, cleaned again, and read from a ratings row
CleanInit ==
    /\ cn_name \in Names
    /\ cn_out = <<>> /\ cn_again = <<>> /\ cn_entry = <<>>
    /\ cn_pc = "ready"
    /\ lb_page = <<>> /\ lb_out = <<>> /\ lb_pc = "off"
    /\ xp_n = 0 /\ xp_text = <<>> /\ xp_out = None /\ xp_pc = "off"
    /\ st_page = <<>> /\ st_out = None /\ st_pc = "off"
    /\ sd_soup = Empty /\ sd_nick = <<>> /\ sd_out = "none" /\ sd_pc = "off"
    /\ rk_page = <<>> /\ rk_out = <<>> /\ rk_pc = "off"
    /\ eq_page = <<>> /\ eq_out = <<>> /\ eq_pc = "off"
    /\ tr_cache = <<>> /\ tr_resolved = <<>> /\ tr_failed = {} /\ tr_last = NoCall /\ tr_count = 0
    /\ se_held = 0 /\ se_status = [i \in SessionIds |-> "unmade"] /\ se_closing = 0 /\ se_last = NoGet /\ se_req = [l \in Lookups |-> 0] /\ se_ops = 0
    /\ rd_pc = [e \in ReadyEvents |-> "idle"] /\ rd_running = FALSE /\ rd_launched = 0 /\ rd_refused = 0 /\ rd_iters = 0
    /\ session = "None" /\ last_html = Empty /\ calls = <<>>
    /\ now = 0 /\ stored = <<>> /\ invoked = 0

SpecClean == CleanInit /\ [][CleanNext]_vars

TrNext ==
    \E text \in Texts, outcome \in ExternalOutcomes :
        Translate(text, outcome)
        /\ UNCHANGED <<lbvars, xpvars, stvars, sdvars, rkvars, eqvars, cnvars, sevars, rdvars, svcvars>>

\* SpecTr: translate_text is called with any texts, the external translator
\* answering as it may
TrInit ==
    /\ tr_cache = [t \in Texts |-> NotCached]
    /\ tr_resolved = [t \in Texts |-> NotCached]
    /\ tr_failed = {}
    /\ tr_last = NoCall
    /\ tr_count = 0
    /\ lb_page = <<>> /\ lb_out = <<>> /\ lb_pc = "off"
    /\ xp_n = 0 /\ xp_text = <<>> /\ xp_out = None /\ xp_pc = "off"
    /\ st_page = <<>> /\ st_out = None /\ st_pc = "off"
    /\ sd_soup = Empty /\ sd_nick = <<>> /\ sd_out = "none" /\ sd_pc = "off"
    /\ rk_page = <<>> /\ rk_out = <<>> /\ rk_pc = "off"
    /\ eq_page = <<>> /\ eq_out = <<>> /\ eq_pc = "off"
    /\ cn_name = <<>> /\ cn_out = <<>> /\ cn_again = <<>> /\ cn_entry = <<>> /\ cn_pc = "off"
    /\ se_held = 0 /\ se_status = [i \in SessionIds |-> "unmade"] /\ se_closing = 0 /\ se_last = NoGet /\ se_req = [l \in Lookups |-> 0] /\ se_ops = 0
    /\ rd_pc = [e \in ReadyEvents |-> "idle"] /\ rd_running = FALSE /\ rd_launched = 0 /\ rd_refused = 0 /\ rd_iters = 0
    /\ session = "None" /\ last_html = Empty /\ calls = <<>>
    /\ now = 0 /\ stored = <<>> /\ invoked = 0

SpecTr == TrInit /\ [][TrNext]_vars

SessionNext ==
    \/ \E l \in Lookups : GetSession(l) /\ UNCHANGED <<lbvars, xpvars, stvars, sdvars, rkvars, eqvars, cnvars, trvars, rdvars, svcvars>>
    \/ \E at_once \in BOOLEAN : CloseBegin(at_once) /\ UNCHANGED <<lbvars, xpvars, stvars, sdvars, rkvars, eqvars, cnvars, trvars, rdvars, svcvars>>
    \/ CloseEnd /\ UNCHANGED <<lbvars, xpvars, stvars, sdvars, rkvars, eqvars, cnvars, trvars, rdvars, svcvars>>
    \/ \E l \in Lookups : RequestDone(l) /\ UNCHANGED <<lbvars, xpvars, stvars, sdvars, rkvars, eqvars, cnvars, trvars, rdvars, svcvars>>

\* SpecSession: lookups call _get_session and close() is called, in any order
SessionInit ==
    /\ se_held = 0
    /\ se_status = [i \in SessionIds |-> "unmade"]
    /\ se_closing = 0
    /\ se_last = NoGet
    /\ se_req = [l \in Lookups |-> 0]
    /\ se_ops = 0
    /\ lb_page = <<>> /\ lb_out = <<>> /\ lb_pc = "off"
    /\ xp_n = 0 /\ xp_text = <<>> /\ xp_out = None /\ xp_pc = "off"
    /\ st_page = <<>> /\ st_out = None /\ st_pc = "off"
    /\ sd_soup = Empty /\ sd_nick = <<>> /\ sd_out = "none" /\ sd_pc = "off"
    /\ rk_page = <<>> /\ rk_out = <<>> /\ rk_pc = "off"
    /\ eq_page = <<>> /\ eq_out = <<>> /\ eq_pc = "off"
    /\ cn_name = <<>> /\ cn_out = <<>> /\ cn_again = <<>> /\ cn_entry = <<>> /\ cn_pc = "off"
    /\ tr_cache = <<>> /\ tr_resolved = <<>> /\ tr_failed = {} /\ tr_last = NoCall /\ tr_count = 0
    /\ rd_pc = [e \in ReadyEvents |-> "idle"] /\ rd_running = FALSE /\ rd_launched = 0 /\ rd_refused = 0 /\ rd_iters = 0
    /\ session = "None" /\ last_html = Empty /\ calls = <<>>
    /\ now = 0 /\ stored = <<>> /\ invoked = 0

SpecSession == SessionInit /\ [][SessionNext]_vars

ReadyNext ==
    \/ \E e \in ReadyEvents : Ready(e) /\ UNCHANGED <<lbvars, xpvars, stvars, sdvars, rkvars, eqvars, cnvars, trvars, sevars, svcvars>>
    \/ \E e \in ReadyEvents : SleepDone(e) /\ UNCHANGED <<lbvars, xpvars, stvars, sdvars, rkvars, eqvars, cnvars, trvars, sevars, svcvars>>
    \/ \E e \in ReadyEvents : SyncDone(e) /\ UNCHANGED <<lbvars, xpvars, stvars, sdvars, rkvars, eqvars, cnvars, trvars, sevars, svcvars>>
    \/ HourlyIteration /\ UNCHANGED <<lbvars, xpvars, stvars, sdvars, rkvars, eqvars, cnvars, trvars, sevars, svcvars>>

\* SpecReady: on_ready events arrive and their handlers interleave at their
\* awaits; the hourly task iterates once started
ReadyInit ==
    /\ rd_pc = [e \in ReadyEvents |-> "idle"]
    /\ rd_running = FALSE
    /\ rd_launched = 0
    /\ rd_refused = 0
    /\ rd_iters = 0
    /\ lb_page = <<>> /\ lb_out = <<>> /\ lb_pc = "off"
    /\ xp_n = 0 /\ xp_text = <<>> /\ xp_out = None /\ xp_pc = "off"
    /\ st_page = <<>> /\ st_out = None /\ st_pc = "off"
    /\ sd_soup = Empty /\ sd_nick = <<>> /\ sd_out = "none" /\ sd_pc = "off"
    /\ rk_page = <<>> /\ rk_out = <<>> /\ rk_pc = "off"
    /\ eq_page = <<>> /\ eq_out = <<>> /\ eq_pc = "off"
    /\ cn_name = <<>> /\ cn_out = <<>> /\ cn_again = <<>> /\ cn_entry = <<>> /\ cn_pc = "off"
    /\ tr_cache = <<>> /\ tr_resolved = <<>> /\ tr_failed = {} /\ tr_last = NoCall /\ tr_count = 0
    /\ se_held = 0 /\ se_status = [i \in SessionIds |-> "unmade"] /\ se_closing = 0 /\ se_last = NoGet /\ se_req = [l \in Lookups |-> 0] /\ se_ops = 0
    /\ session = "None" /\ last_html = Empty /\ calls = <<>>
    /\ now = 0 /\ stored = <<>> /\ invoked = 0

SpecReady == ReadyInit /\ [][ReadyNext]_vars

====
